---- MODULE Spec2Model ----
(***************************************************************************)
(* A model of mbbolt: the rbolt server's per-database write-transaction    *)
(* lock map with its idle watcher (rbolt server), the rbolt client's       *)
(* Update flow, and the MultiDB registry's Get.                            *)
(*                                                                         *)
(* The bbolt engine is an external collaborator.  It is modelled by its    *)
(* contract: one writer per database (Begin(true) blocks while another     *)
(* write transaction is open), a write transaction works on a private      *)
(* copy of the committed data, Commit publishes the copy, Rollback drops   *)
(* it, and every use of a closed transaction fails without effect.         *)
(***************************************************************************)
EXTENDS Integers, Sequences, FiniteSets, TLC

\* ------------------------------------------------------------------ bounds
\* engine write transactions the server may begin in one run
MaxTx == 2
\* requests the clients send in one run
MaxReq == 4
\* goroutines calling MultiDB.Get for the one name
MaxCallers == 3

\* goroutines calling one Cache[T]
MaxCacheCallers == 2

\* Tx objects one client creates with Begin
MaxBegin == 2
\* thunks one Tx collects
MaxUpdates == 2
\* the highest sequence number a bucket hands out
MaxSeq == 3

\* Put, Delete and index calls on the databases handed to ConvertDB
MaxSegOps == 2
\* ConvertDB calls in one run
MaxConverts == 1
\* files of a SegDB
NumSegments == 2

\* journal periods (file names) in one run
MaxPeriods == 2
\* requests that write the journal in one run
MaxJournalCalls == 4
\* Put, Tx.Put, Begin, Commit and Rollback calls of the client whose values are objects
MaxAliasOps == 4
\* doReq calls
MaxDoCalls == 4
\* ForEach calls and the frames of a response body
MaxForEach == 2
MaxStream == 3

\* Server.MaxUnusedLock, in clock ticks
MaxUnusedLock == 1

Clients == {"c1", "c2"}
DBs == {"d1"}
Keys == {"k1"}
\* payloads a client may send; "" is the empty byte string
Vals == {"", "a"}
\* Authorization header values; "" is a request without the header
Hdrs == {"", "K"}
\* values of Server.AuthKey
AuthKeys == {"", "K"}

TxIds == 1..MaxTx
Callers == 1..MaxCallers
\* engine handles (*BBoltDB, and the *DB wrapping it): one per successful open
Handles == 1..MaxCallers
Nil == 0
CacheCallers == 1..MaxCacheCallers
\* heap objects: one per cache entry, held value and local, and a new one
Refs == 1..(2 * MaxCacheCallers + 2)
\* what an object of type T may contain
Contents == {"a", "b"}
\* the zero value of T
ZeroT == 0
\* the map has no entry for the key
NoEntry == -1
\* goroutines of the one rbolt client
Goroutines == {1, 2}
\* []byte values ("#" is the empty slice) and the values of other types
ByteVals == {"#", "#a"}
CliVals == {"#", "a"}
\* the values handed to DB.Put
DbVals == {"#", "#a", "a"}
\* no cached value
Absent == "absent"
\* what opening the journal file of a new period may do
OpenResults == {"ok", "nofile", "noseek"}
\* the databases handed to ConvertDB, their buckets and keys
SegNames == {"A", "B"}
SegBuckets == {"b1", "b2"}
SegBucketSeq == <<"b1", "b2">>
SegKeys == {"ka", "kb"}
\* a DB (one file) or a SegDB
SegKinds == {"db", "seg"}
\* Options.InitialBuckets
InitialBuckets == {{}, {"b1"}}
\* the value a ConvertFn puts in place of another
NewVal == <<"raw", "#z">>
\* byte slices, as they are stored
StoredVals == {<<"raw", "#x">>, <<"mp", "a">>, <<"json", "a">>, NewVal}
\* the values handed to DBer.Put (a value of some type, tagged "any", and a
\* []byte) and the numbers handed to SetNextIndex
SegVals == {<<"any", "a">>, <<"raw", "#x">>}
SegSeqs == {2}
\* ConvertDB's fn
ConvertFns == {"id", "drop", "set"}
\* the caller's objects (values of a pointer, slice or map type)
ARefs == {1, 2}
\* values of Client.RetryCount (NewClient sets 100; the field is exported)
RetryCounts == {0, 1, 3}
\* http.StatusOK, http.StatusUnauthorized and another status
Statuses == {"200", "401", "500"}
FeKeys == {"k1", "k2"}
\* frames: an empty key, two pairs, and a pair whose value does not decode
Frames == {<<"", <<"mp", "">>>>, <<"k1", <<"mp", "a">>>>, <<"k2", <<"mp", "b">>>>,
           <<"k1", <<"raw", "#x">>>>}
Streams == UNION {[1..n -> Frames] : n \in 0..MaxStream}
\* no value (a nil byte slice)
None == <<>>
\* a stored value: the payload with the id of the engine transaction that
\* wrote it (0 for a noTx write).  The tag is not part of the bytes; it
\* records which transaction a visible value came from.
Val == (0..MaxTx) \X Vals

Ops == {"GET", "PUT", "DEL", "FOR_EACH"}

VARIABLES
    AuthKey,    \* Server.AuthKey
    lock,       \* Server.lock: db name -> serverTx (Nil when absent)
    stats,      \* Server.stats
    journal,    \* number of entries appended to the journal
    nTx,        \* engine write transactions begun so far
    txDb,       \* tx -> the database it was begun on
    txState,    \* tx -> "none" | "live" | "committed" | "rolledback"
    txMu,       \* serverTx.Mutex: TRUE when held
    idle,       \* tx -> time.Now() - serverTx.last, saturated at MaxUnusedLock + 1
    work,       \* tx -> the transaction's private view of the bucket
    store,      \* db -> the committed bucket
    lastW,      \* tx -> key -> last write made in the transaction (history)
    hpc,        \* client -> position of the server handler of its request
    req,        \* client -> the request in flight
    htx,        \* client -> the serverTx the handler looked up
    resp,       \* client -> the last response (what doReq returned)
    wpc,        \* watcher -> position in checkLock
    wtx,        \* watcher -> the serverTx checkLock looked up
    cst,        \* client -> position in Client.Update / noTx call
    nReq,       \* requests sent so far
    updRes,     \* client -> what the last Update returned
    wrote,      \* client -> engine txs the running Update's writes went to
    cLocks,     \* Client.locks: the dbs the client holds a Tx for
    mdbM,       \* MultiDB.m[name]: the registered *DB (Nil when absent)
    mdbMux,     \* MultiDB.mux: the caller holding the write lock (Nil when free)
    flock,      \* the engine handle holding the file's lock (Nil when free)
    nOpen,      \* successful bbolt.Open calls so far
    dbState,    \* handle -> "none" | "open" | "closing" | "closed"
    gpc,        \* caller -> position in MultiDB.Get
    gdb,        \* caller -> Get's result db
    gerr,       \* caller -> Get's result err
    gbdb,       \* caller -> Get's local bdb
    gspin,      \* caller -> parity of the poll loop's iterations
    onClose,    \* handle -> DB.onClose is set
    cpc,        \* position of the goroutine in MultiDB.Close
    cdb,        \* MultiDB.Close's loop variable db
    heap,       \* reference -> content of the object ("free" when unused)
    cacheM,     \* Cache.m: key -> the entry (NoEntry, ZeroT or a reference)
    cacheMux,   \* the goroutine whose MustGet holds Cache.m's lock while fn runs
    bkt,        \* the Cache's bucket in the engine: key -> committed bytes
    wtxOwner,   \* the goroutine holding the engine's write transaction
    wtxBkt,     \* the write transaction's view of the bucket
    kpc,        \* goroutine -> position in its Cache call
    kop,        \* goroutine -> the Cache method it called last
    kkey,       \* goroutine -> the key of the call
    kv,         \* goroutine -> the value it holds (Put's v, Get's result)
    kloc,       \* goroutine -> the value fn loaded in Get
    kerr,       \* goroutine -> the error of the call
    kfound,     \* goroutine -> Get's local found
    rdb,        \* the database: [b: the committed bucket, seq: its sequence]
    rlive,      \* Server.lock holds a write transaction for the db
    rview,      \* that transaction's view of bucket and sequence
    ccache,     \* Client.m[db][bucket]: key -> cached value (Absent if none)
    clk,        \* Client.locks[db]: a Tx object (Nil when unset)
    nTxObj,     \* Tx objects created so far
    updates,    \* Tx object -> tx.updates, as <<key, value or Absent>>
    rpc,        \* goroutine -> position in Begin / Commit / Rollback
    rtx,        \* goroutine -> the Tx object of that call
    rkind,      \* goroutine -> "commit" or "rollback"
    rret,       \* what the last finished call returned: <<call, err, value>>
    sent,       \* Tx object -> commit/rollback requests sent for it (history)
    called,     \* Tx object -> Commit or Rollback was called on it (history)
    lastNoTx,   \* key -> the last successful Put/Delete (history)
    lastIdx,    \* ret: the last value NextIndex returned; mark: that, or the
                \* argument of a later SetNextIndex (history)
    sdb,        \* name -> a DBer: its kind and its files, each bucket -> contents
    sret,       \* what the last DBer call returned: <<call, err, argument>>
    seen,       \* key -> calls of fn in the last ForEachBytes
    sops,       \* Put, Delete and index calls made so far
    nconv,      \* ConvertDB calls made so far
    jrn,        \* the Journal: fn (period of the file name, 0 for ""), f, enc
    jnow,       \* the period time.Now() falls in
    jret,       \* what the last Journal call did: "nil", "err", "panic", "closed"
    jlock,      \* Server.lock has an entry for the db
    jwriter,    \* the engine's write transaction is held
    jresp,      \* the response to the last request
    jcalls,     \* requests handled so far
    reaped,     \* transactions that a watcher's tx.Rollback() rolled back (history)
    began,      \* tx -> the client whose begin request opened it (history)
    everc,      \* the <<key, value>> that Client.Put or a committed Tx.Put
                \* has stored in the database so far (history)
    kold,       \* goroutine -> what Cache.m held for its key when its
                \* running Update reached the map (history)
    aheap,      \* caller's object -> its content ("free" when not allocated)
    acache,     \* Client.m[db][bucket]: key -> the stored any
    asrv,       \* the server's bucket: key -> committed bytes
    atx,        \* the client's Tx: live, the server view, tx.updates, and what
                \* each Tx.Put was called with (history)
    alast,      \* key -> the content of v at the last Put that took effect (history)
    aret,       \* what the last Client.Get returned: <<err, key, content>>
    aops,       \* Put and Tx calls made so far
    dpc,        \* Client.doReq: "idle", "do" (about to call c.c.Do) or "sleep"
    dretry,     \* doReq's local retry
    dcount,     \* c.RetryCount of the call
    dtries,     \* c.c.Do calls made by the call (history)
    dsleeps,    \* time.Sleep(c.RetrySleep) calls made by the call (history)
    dret,       \* what the last doReq returned: <<error, N>>
    dcalls,     \* doReq calls made so far
    fpc,        \* forEach: "idle" or "loop"
    fstream,    \* the frames of the response body, each <<key, value bytes>>
    fpos,       \* the frame dec.Decode yields next
    fcalls,     \* the <<key, v>> handed to fn by the call, in order (history)
    finst,      \* the <<key, v>> the call installed in the cache, in order (history)
    fcache,     \* the client cache of the bucket: key -> value (Absent if none)
    fret,       \* what the last forEach returned
    fruns       \* ForEach calls made so far

srvVars == <<AuthKey, lock, stats, journal, nTx, txDb, txState, txMu, idle,
             work, store, lastW, hpc, req, htx, resp, wpc, wtx>>
cliVars == <<cst, nReq, updRes, wrote, cLocks>>
rboltVars == <<srvVars, cliVars>>
closeVars == <<onClose, cpc, cdb>>
mdbVars == <<mdbM, mdbMux, flock, nOpen, dbState, gpc, gdb, gerr, gbdb, gspin, closeVars>>
\* what the rbolt actions, and what the MultiDB actions, leave alone
cacheVars == <<heap, cacheM, cacheMux, bkt, wtxOwner, wtxBkt, kpc, kop, kkey,
               kv, kloc, kerr, kfound>>
remVars == <<rdb, rlive, rview, ccache, clk, nTxObj, updates, rpc, rtx, rkind,
             rret, sent, called, lastNoTx, lastIdx>>
segVars == <<sdb, sret, seen, sops, nconv>>
jrnVars == <<jrn, jnow, jret, jlock, jwriter, jresp, jcalls>>
aliVars == <<aheap, acache, asrv, atx, alast, aret, aops>>
doVars == <<dpc, dretry, dcount, dtries, dsleeps, dret, dcalls>>
feVars == <<fpc, fstream, fpos, fcalls, finst, fcache, fret, fruns>>
\* what the server and its clients leave alone, but for the history
otherVars == <<mdbVars, cacheVars, remVars, segVars, jrnVars, aliVars, doVars, feVars>>
\* the histories of the server
histVars == <<reaped, began, everc, kold>>
nonRboltVars == <<otherVars, histVars>>
nonMdbVars == <<rboltVars, cacheVars, remVars, segVars, jrnVars, histVars, aliVars, doVars, feVars>>
nonCacheVars == <<rboltVars, mdbVars, remVars, segVars, jrnVars, histVars, aliVars, doVars, feVars>>
nonRemVars == <<rboltVars, mdbVars, cacheVars, segVars, jrnVars, histVars, aliVars, doVars, feVars>>
nonSegVars == <<rboltVars, mdbVars, cacheVars, remVars, jrnVars, histVars, aliVars, doVars, feVars>>
nonJrnVars == <<rboltVars, mdbVars, cacheVars, remVars, segVars, histVars, aliVars, doVars, feVars>>
nonAliVars == <<rboltVars, mdbVars, cacheVars, remVars, segVars, jrnVars, histVars, doVars, feVars>>
nonDoVars == <<rboltVars, mdbVars, cacheVars, remVars, segVars, jrnVars, histVars, aliVars, feVars>>
nonFeVars == <<rboltVars, mdbVars, cacheVars, remVars, segVars, jrnVars, histVars, aliVars, doVars>>
vars == <<rboltVars, mdbVars, cacheVars, remVars, segVars, jrnVars, histVars, aliVars, doVars, feVars>>

\* ------------------------------------------------------------ the engine
EmptyBucket == [exists |-> FALSE, kv |-> [k \in Keys |-> None]]

\* len(out) == 0
IsEmpty(v) == v = None \/ v[2] = ""

TxGetBytes(b, k) == IF b.exists THEN b.kv[k] ELSE None

\* a Put that is lost
TxPutBytesDropped(b, k, v) == b

TxPutBytes(b, k, v) == [exists |-> TRUE, kv |-> [b.kv EXCEPT ![k] = v]]

\* <<error, bucket>>
TxDelete(b, k) ==
    IF b.exists THEN <<"ok", [b EXCEPT !.kv[k] = None]>>
    ELSE <<"bucketnotfound", b>>

\* <<error, the keys handed to fn>>
TxForEachBytes(b) ==
    IF b.exists THEN <<"ok", {k \in Keys : b.kv[k] # None}>>
    ELSE <<"bucketnotfound", {}>>

\* bbolt allows one write transaction per database
WriterBusy(d) == \E t \in TxIds : txDb[t] = d /\ txState[t] = "live"

NoReq == [kind |-> "none", db |-> "d1", op |-> "GET", key |-> "k1", val |-> "", hdr |-> ""]
NoResp == [code |-> "none", val |-> None, keys |-> {}]
Resp(code) == [code |-> code, val |-> None, keys |-> {}]

NoWrites == [k \in Keys |-> <<"none">>]
\* the view of no transaction
NoView == [b |-> EmptyBucket, seq |-> 0]

Init ==
    /\ AuthKey \in AuthKeys
    /\ lock = [d \in DBs |-> Nil]
    /\ stats = [Locks |-> 0, ActiveLocks |-> 0, Timeouts |-> 0, Commits |-> 0, Rollbacks |-> 0]
    /\ journal = 0
    /\ nTx = 0
    /\ txDb = [t \in TxIds |-> "d1"]
    /\ txState = [t \in TxIds |-> "none"]
    /\ txMu = [t \in TxIds |-> FALSE]
    /\ idle = [t \in TxIds |-> 0]
    /\ work = [t \in TxIds |-> EmptyBucket]
    /\ store = [d \in DBs |-> EmptyBucket]
    /\ lastW = [t \in TxIds |-> NoWrites]
    /\ hpc = [c \in Clients |-> "idle"]
    /\ req = [c \in Clients |-> NoReq]
    /\ htx = [c \in Clients |-> Nil]
    /\ resp = [c \in Clients |-> NoResp]
    /\ wpc = [w \in TxIds |-> "off"]
    /\ wtx = [w \in TxIds |-> Nil]
    /\ cst = [c \in Clients |-> "idle"]
    /\ nReq = 0
    /\ updRes = [c \in Clients |-> "none"]
    /\ wrote = [c \in Clients |-> {}]
    /\ cLocks = [c \in Clients |-> {}]
    /\ mdbM = Nil
    /\ mdbMux = Nil
    /\ flock = Nil
    /\ nOpen = 0
    /\ dbState = [h \in Handles |-> "none"]
    /\ gpc = [g \in Callers |-> "lookup"]
    /\ gdb = [g \in Callers |-> Nil]
    /\ gerr = [g \in Callers |-> "nil"]
    /\ gbdb = [g \in Callers |-> Nil]
    /\ gspin = [g \in Callers |-> FALSE]
    /\ onClose = [h \in Handles |-> FALSE]
    /\ cpc = "idle"
    /\ cdb = Nil
    /\ heap = [r \in Refs |-> "free"]
    /\ cacheM = [k \in Keys |-> NoEntry]
    /\ cacheMux = Nil
    /\ bkt = [k \in Keys |-> None]
    /\ wtxOwner = Nil
    /\ wtxBkt = [k \in Keys |-> None]
    /\ kpc = [g \in CacheCallers |-> "idle"]
    /\ kop = [g \in CacheCallers |-> "get"]
    /\ kkey = [g \in CacheCallers |-> "k1"]
    /\ kv = [g \in CacheCallers |-> ZeroT]
    /\ kloc = [g \in CacheCallers |-> ZeroT]
    /\ kerr = [g \in CacheCallers |-> "nil"]
    /\ kfound = [g \in CacheCallers |-> TRUE]
    /\ rdb = [b |-> EmptyBucket, seq |-> 0]
    /\ rlive = FALSE
    /\ rview = NoView
    /\ ccache = [k \in Keys |-> Absent]
    /\ clk = Nil
    /\ nTxObj = 0
    /\ updates = [t \in 1..MaxBegin |-> <<>>]
    /\ rpc = [g \in Goroutines |-> "idle"]
    /\ rtx = [g \in Goroutines |-> Nil]
    /\ rkind = [g \in Goroutines |-> "commit"]
    /\ rret = <<"none", "nil", Absent>>
    /\ sent = [t \in 1..MaxBegin |-> 0]
    /\ called = [t \in 1..MaxBegin |-> FALSE]
    /\ lastNoTx = [k \in Keys |-> <<"none", Absent, FALSE>>]
    /\ lastIdx = [ret |-> 0, mark |-> 0]
    /\ sdb = [d \in SegNames |-> [kind |-> "none", segs |-> <<>>]]
    /\ sret = <<"none", "nil", "">>
    /\ seen = [k \in SegKeys |-> 0]
    /\ sops = 0
    /\ nconv = 0
    /\ jrn = [fn |-> 0, f |-> "nil", enc |-> "nil"]
    /\ jnow = 1
    /\ jret = "none"
    /\ jlock = FALSE
    /\ jwriter = FALSE
    /\ jresp = "none"
    /\ jcalls = 0
    /\ reaped = 0
    /\ began = [t \in TxIds |-> "none"]
    /\ everc = {}
    /\ kold = [g \in CacheCallers |-> "absent"]
    /\ aheap = [r \in ARefs |-> "free"]
    /\ acache = [k \in Keys |-> <<"none">>]
    /\ asrv = [k \in Keys |-> None]
    /\ atx = [live |-> FALSE, view |-> [k \in Keys |-> None], updates |-> <<>>,
              put |-> [k \in Keys |-> Absent]]
    /\ alast = [k \in Keys |-> Absent]
    /\ aret = <<"none", "k1", Absent>>
    /\ aops = 0
    /\ dpc = "idle"
    /\ dretry = 0
    /\ dcount = 0
    /\ dtries = 0
    /\ dsleeps = 0
    /\ dret = <<"none", 0>>
    /\ dcalls = 0
    /\ fpc = "idle"
    /\ fstream = <<>>
    /\ fpos = 1
    /\ fcalls = <<>>
    /\ finst = <<>>
    /\ fcache = [k \in FeKeys |-> Absent]
    /\ fret = "none"
    /\ fruns = 0

\* ------------------------------------------------------------ the client
MkReq(kind, d, op, k, v, h) ==
    [kind |-> kind, db |-> d, op |-> op, key |-> k, val |-> v, hdr |-> h]

\* Client.doReq: one request in flight per client; the header is Client.AuthKey
Send(c, r) ==
    /\ hpc[c] = "idle"
    /\ nReq < MaxReq
    /\ nReq' = nReq + 1
    /\ hpc' = [hpc EXCEPT ![c] = "mw"]
    /\ req' = [req EXCEPT ![c] = r]
    /\ resp' = [resp EXCEPT ![c] = NoResp]

\* Client.Get / Put / Delete: a noTx request
ClientNoTx(c) ==
    /\ cst[c] = "idle"
    /\ \E d \in DBs, op \in {"GET", "PUT", "DEL"}, k \in Keys, v \in Vals, h \in Hdrs :
          /\ op # "PUT" => v = ""
          /\ Send(c, MkReq("notx", d, op, k, v, h))
    /\ cst' = [cst EXCEPT ![c] = "w_notx"]
    /\ UNCHANGED nonRboltVars
    /\ UNCHANGED <<AuthKey, lock, stats, journal, nTx, txDb, txState, txMu, idle,
                   work, store, lastW, htx, wpc, wtx, updRes, wrote, cLocks>>

\* Client.Update -> Client.Begin: POST tx/begin/<db>
ClientUpdate(c) ==
    /\ cst[c] = "idle"
    /\ nTx + Cardinality({x \in Clients : cst[x] = "w_begin"}) < MaxTx
    /\ \E d \in DBs, h \in Hdrs : Send(c, MkReq("begin", d, "GET", "k1", "", h))
    /\ cst' = [cst EXCEPT ![c] = "w_begin"]
    /\ updRes' = [updRes EXCEPT ![c] = "none"]
    /\ wrote' = [wrote EXCEPT ![c] = {}]
    /\ UNCHANGED nonRboltVars
    /\ UNCHANGED <<AuthKey, lock, stats, journal, nTx, txDb, txState, txMu, idle,
                   work, store, lastW, htx, wpc, wtx, cLocks>>

\* Tx.Get / Put / Delete / ForEachTx inside the callback: POST tx/<db>
FnOp(c) ==
    /\ cst[c] = "fn"
    /\ \E op \in Ops, k \in Keys, v \in Vals, h \in Hdrs :
          /\ op # "PUT" => v = ""
          /\ Send(c, MkReq("tx", req[c].db, op, k, v, h))
    /\ cst' = [cst EXCEPT ![c] = "w_op"]
    /\ UNCHANGED nonRboltVars
    /\ UNCHANGED <<AuthKey, lock, stats, journal, nTx, txDb, txState, txMu, idle,
                   work, store, lastW, htx, wpc, wtx, updRes, wrote, cLocks>>

\* Tx.Commit / Tx.Rollback up to the request: the ownership check on
\* Client.locks (commit = TRUE when the callback returned nil)
FnReturn(c, commit) ==
    /\ cst[c] = "fn"
    /\ IF req[c].db \in cLocks[c]
       THEN /\ cLocks' = [cLocks EXCEPT ![c] = @ \ {req[c].db}]
            /\ \E h \in Hdrs :
                  Send(c, MkReq(IF commit THEN "commit" ELSE "rollback",
                                req[c].db, "GET", "k1", "", h))
            /\ cst' = [cst EXCEPT ![c] = IF commit THEN "w_commit" ELSE "w_rollback"]
            /\ UNCHANGED updRes
       ELSE /\ cst' = [cst EXCEPT ![c] = "idle"]
            /\ updRes' = [updRes EXCEPT ![c] = "err"]
            /\ UNCHANGED <<cLocks, hpc, req, resp, nReq>>
    /\ UNCHANGED nonRboltVars
    /\ UNCHANGED <<AuthKey, lock, stats, journal, nTx, txDb, txState, txMu, idle,
                   work, store, lastW, htx, wpc, wtx, wrote>>

\* The response reaches the client: doReq returns it and the caller goes on.
\*   Client.Begin: on success register the Tx, else Update returns the error
\*   Client.Update: returns Tx.Commit's error, or the callback's after Rollback
Deliver(c, rsp) ==
    /\ hpc' = [hpc EXCEPT ![c] = "idle"]
    /\ resp' = [resp EXCEPT ![c] = rsp]
    /\ req' = [req EXCEPT ![c] = [NoReq EXCEPT !.db = req[c].db]]
    /\ htx' = [htx EXCEPT ![c] = Nil]
    /\ cst' = [cst EXCEPT ![c] =
                 CASE cst[c] = "w_begin" /\ rsp.code = "ok" -> "fn"
                   [] cst[c] = "w_op" -> "fn"
                   [] OTHER -> "idle"]
    /\ cLocks' = IF cst[c] = "w_begin" /\ rsp.code = "ok"
                 THEN [cLocks EXCEPT ![c] = @ \cup {req[c].db}] ELSE cLocks
    /\ updRes' = [updRes EXCEPT ![c] =
                    CASE cst[c] = "w_begin" /\ rsp.code # "ok" -> "err"
                      [] cst[c] = "w_commit" -> IF rsp.code = "ok" THEN "nil" ELSE "err"
                      [] cst[c] = "w_rollback" -> "err"
                      [] OTHER -> @]

\* ------------------------------------------------------------ the server
\* a middleware that lets every request through
UnauthorizedNever(c) == FALSE

\* the auth middleware's test
Unauthorized(c) == AuthKey # "" /\ req[c].hdr # AuthKey

\* Server.init: the middleware installed with s.s.Use.  A rejected request is
\* answered 401 and reaches no handler.
Middleware(c) ==
    /\ hpc[c] = "mw"
    /\ IF Unauthorized(c)
       THEN Deliver(c, Resp("unauthorized"))
       ELSE /\ hpc' = [hpc EXCEPT ![c] =
                         CASE req[c].kind = "begin" -> "b_begin"
                           [] req[c].kind = "notx" -> "notx"
                           [] OTHER -> "wt_get"]
            /\ req' = [req EXCEPT ![c].hdr = ""]
            /\ UNCHANGED <<resp, htx, cst, cLocks, updRes>>
    /\ UNCHANGED nonRboltVars
    /\ UNCHANGED <<AuthKey, lock, stats, journal, nTx, txDb, txState, txMu, idle,
                   work, store, lastW, wpc, wtx, nReq, wrote>>

\* Server.txBegin up to db.Begin(true), which blocks while the database has a writer
TxBeginOpen(c) ==
    /\ hpc[c] = "b_begin"
    /\ ~WriterBusy(req[c].db)
    /\ nTx < MaxTx
    /\ LET t == nTx + 1 IN
          /\ nTx' = t
          /\ txDb' = [txDb EXCEPT ![t] = req[c].db]
          /\ txState' = [txState EXCEPT ![t] = "live"]
          /\ work' = [work EXCEPT ![t] = store[req[c].db]]
          /\ htx' = [htx EXCEPT ![c] = t]
          /\ began' = [began EXCEPT ![t] = c]
    /\ hpc' = [hpc EXCEPT ![c] = "b_set"]
    /\ UNCHANGED <<otherVars, reaped, everc, kold>>
    /\ UNCHANGED <<AuthKey, lock, stats, journal, txMu, idle, store, lastW, req,
                   resp, wpc, wtx, cliVars>>

\* Server.txBegin from the journal entry on: store the serverTx in the lock
\* map, count it, spawn checkLock
TxBeginSet(c) ==
    /\ hpc[c] = "b_set"
    /\ journal' = journal + 1
    /\ idle' = [idle EXCEPT ![htx[c]] = 0]
    /\ lock' = [lock EXCEPT ![req[c].db] = htx[c]]
    /\ stats' = [stats EXCEPT !.Locks = @ + 1, !.ActiveLocks = @ + 1]
    /\ wpc' = [wpc EXCEPT ![htx[c]] = "get"]
    /\ Deliver(c, Resp("ok"))
    /\ UNCHANGED nonRboltVars
    /\ UNCHANGED <<AuthKey, nTx, txDb, txState, txMu, work, store, lastW, wtx,
                   nReq, wrote>>

\* what unlock / handleTx do after withTx returned: count, journal
AfterWithTx(c) ==
    /\ journal' = journal + 1
    /\ stats' = CASE req[c].kind = "commit" -> [stats EXCEPT !.Commits = @ + 1]
                  [] req[c].kind = "rollback" -> [stats EXCEPT !.Rollbacks = @ + 1]
                  [] OTHER -> stats

\* a withTx that answers a missing entry like a success
WithTxAbsentOk == "ok"

\* the error withTx returns when the lock map has no entry
WithTxAbsent == "notfound"

\* Server.withTx: tx := s.lock.Get(dbName); if tx == nil return ErrNotFound
WithTxGet(c) ==
    /\ hpc[c] = "wt_get"
    /\ IF lock[req[c].db] = Nil
       THEN /\ AfterWithTx(c)
            /\ Deliver(c, Resp(WithTxAbsent))
       ELSE /\ htx' = [htx EXCEPT ![c] = lock[req[c].db]]
            /\ hpc' = [hpc EXCEPT ![c] = "wt_lock"]
            /\ UNCHANGED <<journal, stats, resp, req, cst, cLocks, updRes>>
    /\ UNCHANGED nonRboltVars
    /\ UNCHANGED <<AuthKey, lock, nTx, txDb, txState, txMu, idle, work, store,
                   lastW, wpc, wtx, nReq, wrote>>

\* Server.withTx: tx.Lock(); if rm { s.lock.Delete(dbName) }; tx.last.Store(now)
WithTxLock(c) ==
    /\ hpc[c] = "wt_lock"
    /\ ~txMu[htx[c]]
    /\ txMu' = [txMu EXCEPT ![htx[c]] = TRUE]
    /\ lock' = IF req[c].kind \in {"commit", "rollback"}
               THEN [lock EXCEPT ![req[c].db] = Nil] ELSE lock
    /\ idle' = [idle EXCEPT ![htx[c]] = 0]
    /\ hpc' = [hpc EXCEPT ![c] = "wt_fn"]
    /\ UNCHANGED nonRboltVars
    /\ UNCHANGED <<AuthKey, stats, journal, nTx, txDb, txState, work, store,
                   lastW, req, htx, resp, wpc, wtx, cliVars>>

\* the engine's Commit: the committed bucket becomes the transaction's view
EngineCommit(committed, view) == view

\* a Rollback that publishes the transaction's view
EngineRollbackLeak(committed, view) == view

\* the engine's Rollback: the committed bucket stays
EngineRollback(committed, view) == committed

\* the callback handleTx passes to withTx, on a live transaction t:
\* <<error, value, keys, the new view, the new last-write record>>
HandleTxOp(r, t) ==
    LET b == work[t] IN
    CASE r.op = "GET" ->
           LET out == TxGetBytes(b, r.key) IN
           IF IsEmpty(out) THEN <<"keynotfound", None, {}, b, lastW[t]>>
           ELSE <<"ok", out, {}, b, lastW[t]>>
      [] r.op = "PUT" ->
           <<"ok", None, {}, TxPutBytes(b, r.key, <<t, r.val>>),
             [lastW[t] EXCEPT ![r.key] = <<"put", r.val>>]>>
      [] r.op = "DEL" ->
           LET d == TxDelete(b, r.key) IN
           <<d[1], None, {}, d[2],
             IF d[1] = "ok" THEN [lastW[t] EXCEPT ![r.key] = <<"del">>] ELSE lastW[t]>>
      [] OTHER ->
           LET f == TxForEachBytes(b) IN <<f[1], None, f[2], b, lastW[t]>>

\* Server.withTx: fn(tx.Tx) and the deferred tx.Unlock(); then what unlock /
\* handleTx do with the result.  A closed transaction refuses every call.
WithTxFn(c) ==
    /\ hpc[c] = "wt_fn"
    /\ LET t == htx[c]
           r == req[c]
           d == txDb[t]
       IN
       IF txState[t] # "live"
       THEN /\ Deliver(c, Resp("txclosed"))
            /\ UNCHANGED <<txState, work, store, lastW, wrote>>
       ELSE CASE r.kind = "commit" ->
                   /\ store' = [store EXCEPT ![d] = EngineCommit(store[d], work[t])]
                   /\ txState' = [txState EXCEPT ![t] = "committed"]
                   /\ work' = [work EXCEPT ![t] = EmptyBucket]
                   /\ lastW' = [lastW EXCEPT ![t] = NoWrites]
                   /\ Deliver(c, Resp("ok"))
                   /\ UNCHANGED wrote
              [] r.kind = "rollback" ->
                   /\ store' = [store EXCEPT ![d] = EngineRollback(store[d], work[t])]
                   /\ txState' = [txState EXCEPT ![t] = "rolledback"]
                   /\ work' = [work EXCEPT ![t] = EmptyBucket]
                   /\ lastW' = [lastW EXCEPT ![t] = NoWrites]
                   /\ Deliver(c, Resp("ok"))
                   /\ UNCHANGED wrote
              [] OTHER ->
                   LET o == HandleTxOp(r, t) IN
                   /\ work' = [work EXCEPT ![t] = o[4]]
                   /\ lastW' = [lastW EXCEPT ![t] = o[5]]
                   /\ Deliver(c, [code |-> o[1], val |-> o[2], keys |-> o[3]])
                   /\ wrote' = IF r.op \in {"PUT", "DEL"} /\ o[1] = "ok"
                               THEN [wrote EXCEPT ![c] = @ \cup {t}] ELSE wrote
                   /\ UNCHANGED <<txState, store>>
    /\ txMu' = [txMu EXCEPT ![htx[c]] = FALSE]
    /\ AfterWithTx(c)
    /\ UNCHANGED nonRboltVars
    /\ UNCHANGED <<AuthKey, lock, nTx, txDb, idle, wpc, wtx, nReq>>

\* Server.handleNoTx: s.mdb.Get, whose error is returned at once; then the
\* operation, in its own engine transaction (a write waits for the
\* database's writer), and the journal entry
HandleNoTx(c) ==
    /\ hpc[c] = "notx"
    /\ \/ /\ Deliver(c, Resp("openerr"))
          /\ UNCHANGED <<store, journal>>
       \/ /\ LET r == req[c]
                 b == store[r.db]
             IN
             CASE r.op = "GET" ->
                    LET out == TxGetBytes(b, r.key) IN
                    /\ Deliver(c, IF IsEmpty(out) THEN Resp("keynotfound")
                                  ELSE [code |-> "ok", val |-> out, keys |-> {}])
                    /\ UNCHANGED store
               [] r.op = "PUT" ->
                    /\ ~WriterBusy(r.db)
                    /\ store' = [store EXCEPT ![r.db] = TxPutBytes(b, r.key, <<0, r.val>>)]
                    /\ Deliver(c, Resp("ok"))
               [] OTHER ->
                    /\ ~WriterBusy(r.db)
                    /\ store' = [store EXCEPT ![r.db] = TxDelete(b, r.key)[2]]
                    /\ Deliver(c, Resp(TxDelete(b, r.key)[1]))
          /\ journal' = journal + 1
    /\ UNCHANGED nonRboltVars
    /\ UNCHANGED <<AuthKey, lock, stats, nTx, txDb, txState, txMu, idle, work,
                   lastW, wpc, wtx, nReq, wrote>>

\* ------------------------------------------------- the idle-lock watcher
\* checkLock's test: time.Now() - tx.last > s.MaxUnusedLock
IsStale(t) == idle[t] > MaxUnusedLock

\* checkLock: the loop's s.lock.Get(dbName); the loop ends when it is nil
CheckLockGet(w) ==
    /\ wpc[w] = "get"
    /\ IF lock[txDb[w]] = Nil
       THEN /\ wpc' = [wpc EXCEPT ![w] = "done"]
            /\ stats' = [stats EXCEPT !.ActiveLocks = @ - 1]
            /\ wtx' = [wtx EXCEPT ![w] = Nil]
       ELSE /\ wtx' = [wtx EXCEPT ![w] = lock[txDb[w]]]
            /\ wpc' = [wpc EXCEPT ![w] = "check"]
            /\ UNCHANGED stats
    /\ UNCHANGED nonRboltVars
    /\ UNCHANGED <<AuthKey, lock, journal, nTx, txDb, txState, txMu, idle, work,
                   store, lastW, hpc, req, htx, resp, cliVars>>

\* checkLock: the staleness test, else sleep a second and loop
CheckLockCheck(w) ==
    /\ wpc[w] = "check"
    /\ wpc' = [wpc EXCEPT ![w] = IF IsStale(wtx[w]) THEN "lock" ELSE "get"]
    /\ UNCHANGED nonRboltVars
    /\ UNCHANGED <<AuthKey, lock, stats, journal, nTx, txDb, txState, txMu, idle,
                   work, store, lastW, hpc, req, htx, resp, wtx, cliVars>>

\* checkLock: tx.Lock(); tx.Rollback(), its error ignored
CheckLockRollback(w) ==
    /\ wpc[w] = "lock"
    /\ ~txMu[wtx[w]]
    /\ txMu' = [txMu EXCEPT ![wtx[w]] = TRUE]
    /\ LET t == wtx[w] IN
       IF txState[t] = "live"
       THEN /\ store' = [store EXCEPT ![txDb[t]] = EngineRollback(store[txDb[t]], work[t])]
            /\ txState' = [txState EXCEPT ![t] = "rolledback"]
            /\ work' = [work EXCEPT ![t] = EmptyBucket]
            /\ lastW' = [lastW EXCEPT ![t] = NoWrites]
            /\ reaped' = reaped + 1
       ELSE UNCHANGED <<store, txState, work, lastW, reaped>>
    /\ wpc' = [wpc EXCEPT ![w] = "delete"]
    /\ UNCHANGED <<otherVars, began, everc, kold>>
    /\ UNCHANGED <<AuthKey, lock, stats, journal, nTx, txDb, idle, hpc, req,
                   htx, resp, wtx, cliVars>>

\* checkLock: s.lock.Delete(dbName); Timeouts++; tx.Unlock(); break; ActiveLocks--
CheckLockDelete(w) ==
    /\ wpc[w] = "delete"
    /\ lock' = [lock EXCEPT ![txDb[w]] = Nil]
    /\ stats' = [stats EXCEPT !.Timeouts = @ + 1, !.ActiveLocks = @ - 1]
    /\ txMu' = [txMu EXCEPT ![wtx[w]] = FALSE]
    /\ wpc' = [wpc EXCEPT ![w] = "done"]
    /\ wtx' = [wtx EXCEPT ![w] = Nil]
    /\ UNCHANGED nonRboltVars
    /\ UNCHANGED <<AuthKey, journal, nTx, txDb, txState, idle, work, store, lastW,
                   hpc, req, htx, resp, cliVars>>

\* time passes: every serverTx grows older
Tick ==
    /\ \E t \in TxIds : txState[t] # "none" /\ idle[t] <= MaxUnusedLock
    /\ idle' = [t \in TxIds |->
                  IF txState[t] # "none" /\ idle[t] <= MaxUnusedLock
                  THEN idle[t] + 1 ELSE idle[t]]
    /\ UNCHANGED nonRboltVars
    /\ UNCHANGED <<AuthKey, lock, stats, journal, nTx, txDb, txState, txMu, work,
                   store, lastW, hpc, req, htx, resp, wpc, wtx, cliVars>>

\* ------------------------------------------------------- specifications
Handler(c) ==
    \/ Middleware(c)
    \/ TxBeginOpen(c)
    \/ TxBeginSet(c)
    \/ WithTxGet(c)
    \/ WithTxLock(c)
    \/ WithTxFn(c)
    \/ HandleNoTx(c)

Watcher(w) ==
    \/ CheckLockGet(w)
    \/ CheckLockCheck(w)
    \/ CheckLockRollback(w)
    \/ CheckLockDelete(w)

Client(c) ==
    \/ ClientNoTx(c)
    \/ ClientUpdate(c)
    \/ FnOp(c)
    \/ FnReturn(c, TRUE)
    \/ FnReturn(c, FALSE)

Next ==
    \/ \E c \in Clients : Client(c)
    \/ \E c \in Clients : Handler(c)
    \/ \E w \in TxIds : Watcher(w)
    \/ Tick

Spec == Init /\ [][Next]_vars

\* Handlers and watchers are goroutines and the clock runs: each keeps taking
\* its steps.  Clients are free to stop at any point.
FairSpec ==
    /\ Spec
    /\ WF_vars(Tick)
    /\ \A c \in Clients : WF_vars(Handler(c))
    /\ \A w \in TxIds : WF_vars(Watcher(w))

\* the state after construction of a server without AuthKey
InitNoAuth == Init /\ AuthKey = ""

\* The lock life cycle alone, on a server without AuthKey: clients begin,
\* then commit, roll back or walk away; no tx operation and no noTx request.
LockHandler(c) ==
    \/ Middleware(c)
    \/ TxBeginOpen(c)
    \/ TxBeginSet(c)
    \/ WithTxGet(c)
    \/ WithTxLock(c)
    \/ WithTxFn(c)

LockClient(c) ==
    \/ ClientUpdate(c)
    \/ FnReturn(c, TRUE)
    \/ FnReturn(c, FALSE)

LockNext ==
    \/ \E c \in Clients : LockClient(c)
    \/ \E c \in Clients : LockHandler(c)
    \/ \E w \in TxIds : Watcher(w)
    \/ Tick

LockSpec ==
    /\ InitNoAuth
    /\ [][LockNext]_vars
    /\ WF_vars(Tick)
    /\ \A c \in Clients : WF_vars(LockHandler(c))
    /\ \A w \in TxIds : WF_vars(Watcher(w))

\* ---------------------------------------------------------- MultiDB.Get
\* a file lock that excludes nobody
FlockAlwaysFree == TRUE

\* bbolt.Open takes the file's lock; while another handle holds it, Open
\* waits and gives up with ErrTimeout after Options.Timeout
FlockFree == flock = Nil

\* Get: the lookup under the read lock
GetLookup(g) ==
    /\ gpc[g] = "lookup"
    /\ mdbMux = Nil
    /\ IF mdbM # Nil
       THEN /\ gdb' = [gdb EXCEPT ![g] = mdbM]
            /\ gpc' = [gpc EXCEPT ![g] = "done"]
       ELSE /\ gpc' = [gpc EXCEPT ![g] = "open"]
            /\ UNCHANGED gdb
    /\ UNCHANGED <<mdbM, mdbMux, flock, nOpen, dbState, gerr, gbdb, gspin>>
    /\ UNCHANGED closeVars
    /\ UNCHANGED nonMdbVars

\* Get: bbolt.Open(fp, ...) returns a handle, or ErrTimeout (err is reset to
\* nil and the caller goes to the poll loop)
GetOpen(g) ==
    /\ gpc[g] = "open"
    /\ IF FlockFree
       THEN /\ nOpen < MaxCallers
            /\ nOpen' = nOpen + 1
            /\ flock' = nOpen + 1
            /\ dbState' = [dbState EXCEPT ![nOpen + 1] = "open"]
            /\ gbdb' = [gbdb EXCEPT ![g] = nOpen + 1]
            /\ gpc' = [gpc EXCEPT ![g] = "lock"]
       ELSE /\ gpc' = [gpc EXCEPT ![g] = "poll"]
            /\ UNCHANGED <<nOpen, flock, dbState, gbdb>>
    /\ UNCHANGED <<mdbM, mdbMux, gdb, gerr, gspin>>
    /\ UNCHANGED closeVars
    /\ UNCHANGED nonMdbVars

\* Get: one iteration of  for db == nil { RLock; db = m[name]; RUnlock; Sleep }
GetPoll(g) ==
    /\ gpc[g] = "poll"
    /\ mdbMux = Nil
    /\ gdb' = [gdb EXCEPT ![g] = mdbM]
    /\ gspin' = [gspin EXCEPT ![g] = ~@]
    /\ gpc' = [gpc EXCEPT ![g] = IF mdbM # Nil THEN "done" ELSE "poll"]
    /\ UNCHANGED <<mdbM, mdbMux, flock, nOpen, dbState, gerr, gbdb>>
    /\ UNCHANGED closeVars
    /\ UNCHANGED nonMdbVars

\* Get: mdb.mux.Lock()
GetLock(g) ==
    /\ gpc[g] = "lock"
    /\ mdbMux = Nil
    /\ mdbMux' = g
    /\ gpc' = [gpc EXCEPT ![g] = "insert"]
    /\ UNCHANGED <<mdbM, flock, nOpen, dbState, gdb, gerr, gbdb, gspin>>
    /\ UNCHANGED closeVars
    /\ UNCHANGED nonMdbVars

\* Get under the write lock: the race check, db = &DB{b: bdb}, InitDB and
\* InitialBuckets (initOk = FALSE when one of them fails), the insert, and
\* the deferred Unlock
GetInsert(g, initOk) ==
    /\ gpc[g] = "insert"
    /\ IF mdbM # Nil
       THEN /\ gdb' = [gdb EXCEPT ![g] = mdbM]
            /\ UNCHANGED <<mdbM, gerr>>
       ELSE /\ gdb' = [gdb EXCEPT ![g] = gbdb[g]]
            /\ IF initOk
               THEN /\ mdbM' = gbdb[g]
                    /\ UNCHANGED gerr
               ELSE /\ gerr' = [gerr EXCEPT ![g] = "err"]
                    /\ UNCHANGED mdbM
    /\ onClose' = IF mdbM = Nil /\ initOk
                  THEN [onClose EXCEPT ![gbdb[g]] = TRUE] ELSE onClose
    /\ mdbMux' = Nil
    /\ gpc' = [gpc EXCEPT ![g] = "done"]
    /\ UNCHANGED <<flock, nOpen, dbState, gbdb, gspin, cpc, cdb>>
    /\ UNCHANGED nonMdbVars

\* DB.Close by a caller that got the handle: db.onClose() deletes m[name]
\* under the write lock
DBCloseOnClose(g) ==
    /\ gpc[g] = "done" /\ gerr[g] = "nil"
    /\ dbState[gdb[g]] = "open"
    /\ onClose[gdb[g]]
    /\ mdbMux = Nil
    /\ mdbM' = Nil
    /\ dbState' = [dbState EXCEPT ![gdb[g]] = "closing"]
    /\ UNCHANGED <<mdbMux, flock, nOpen, gpc, gdb, gerr, gbdb, gspin, closeVars>>
    /\ UNCHANGED nonMdbVars

\* DB.Close: db.b.Close() releases the file's lock
DBCloseEngine(h) ==
    /\ dbState[h] = "closing"
    /\ dbState' = [dbState EXCEPT ![h] = "closed"]
    /\ flock' = IF flock = h THEN Nil ELSE flock
    /\ UNCHANGED <<mdbM, mdbMux, nOpen, gpc, gdb, gerr, gbdb, gspin>>
    /\ UNCHANGED closeVars
    /\ UNCHANGED nonMdbVars

Get(g) ==
    \/ GetLookup(g)
    \/ GetOpen(g)
    \/ GetPoll(g)
    \/ GetLock(g)
    \/ GetInsert(g, TRUE)
    \/ GetInsert(g, FALSE)

MultiNext ==
    \/ \E g \in Callers : Get(g)
    \/ \E g \in Callers : DBCloseOnClose(g)
    \/ \E h \in Handles : DBCloseEngine(h)

\* Each Get runs in a goroutine that keeps taking its steps, and a Close that
\* has begun goes on; whether a caller closes its handle is its own choice.
MultiSpec ==
    /\ InitNoAuth
    /\ [][MultiNext]_vars
    /\ \A g \in Callers : WF_vars(Get(g))
    /\ \A h \in Handles : WF_vars(DBCloseEngine(h))

\* -------------------------------------------------------- MultiDB.Close
\* the goroutine that runs MultiDB.Close holds the registry's lock under this id
Closer == MaxCallers + 1

\* a Close that leaves the callback in place
OnCloseKept(oc, h) == oc

\* Close: db.onClose = nil ("we're handling this")
OnCloseCleared(oc, h) == [oc EXCEPT ![h] = FALSE]

\* a call of MultiDB.Close arrives (CloseAll calls it for every registry)
MdbCloseCall ==
    /\ cpc = "idle"
    /\ cpc' = "lock"
    /\ UNCHANGED <<mdbM, mdbMux, flock, nOpen, dbState, gpc, gdb, gerr, gbdb,
                   gspin, onClose, cdb>>
    /\ UNCHANGED nonMdbVars

\* Close: mdb.mux.Lock()
MdbCloseLock ==
    /\ cpc = "lock"
    /\ mdbMux = Nil
    /\ mdbMux' = Closer
    /\ cpc' = "range"
    /\ UNCHANGED <<mdbM, flock, nOpen, dbState, gpc, gdb, gerr, gbdb, gspin,
                   onClose, cdb>>
    /\ UNCHANGED nonMdbVars

\* Close: for k, db := range mdb.m { db.onClose = nil; ... }; with the one
\* name the loop body runs once when the name is registered
MdbCloseRange ==
    /\ cpc = "range"
    /\ IF mdbM # Nil
       THEN /\ cdb' = mdbM
            /\ onClose' = OnCloseCleared(onClose, mdbM)
            /\ cpc' = "dbclose"
       ELSE /\ cpc' = "unlock"
            /\ UNCHANGED <<cdb, onClose>>
    /\ UNCHANGED <<mdbM, mdbMux, flock, nOpen, dbState, gpc, gdb, gerr, gbdb, gspin>>
    /\ UNCHANGED nonMdbVars

\* Close: db.Close() in the loop, that is DB.Close: the callback if it is
\* set (it takes the registry's lock, which this goroutine holds), then
\* db.b.Close(), which releases the file's lock
MdbCloseDB ==
    /\ cpc = "dbclose"
    /\ onClose[cdb] => mdbMux = Nil
    /\ dbState' = [dbState EXCEPT ![cdb] = "closed"]
    /\ flock' = IF flock = cdb THEN Nil ELSE flock
    /\ mdbM' = IF onClose[cdb] THEN Nil ELSE mdbM
    /\ cpc' = "unlock"
    /\ UNCHANGED <<mdbMux, nOpen, gpc, gdb, gerr, gbdb, gspin, onClose, cdb>>
    /\ UNCHANGED nonMdbVars

\* Close: mdb.m = nil and the deferred Unlock
MdbCloseUnlock ==
    /\ cpc = "unlock"
    /\ mdbM' = Nil
    /\ mdbMux' = Nil
    /\ cpc' = "done"
    /\ UNCHANGED <<flock, nOpen, dbState, gpc, gdb, gerr, gbdb, gspin, onClose, cdb>>
    /\ UNCHANGED nonMdbVars

MdbClose ==
    \/ MdbCloseLock
    \/ MdbCloseRange
    \/ MdbCloseDB
    \/ MdbCloseUnlock

MultiCloseNext ==
    \/ \E g \in Callers : Get(g)
    \/ \E g \in Callers : DBCloseOnClose(g)
    \/ \E h \in Handles : DBCloseEngine(h)
    \/ MdbCloseCall
    \/ MdbClose

\* The registry with Get callers, callers closing their handle, and one call
\* of MultiDB.Close; a Close that was called keeps taking its steps.
MultiCloseSpec ==
    /\ InitNoAuth
    /\ [][MultiCloseNext]_vars
    /\ \A g \in Callers : WF_vars(Get(g))
    /\ \A h \in Handles : WF_vars(DBCloseEngine(h))
    /\ WF_vars(MdbClose)

\* ---------------------------------------------------------------- claims
\* no request is between the client and the end of its handler
NoRequestInFlight == \A c \in Clients : hpc[c] = "idle"

\* C1: in every reachable server state the lock map holds at most one entry
\* per database name (it is a map from names), and every entry present
\* references an engine write transaction that is still live.
C1_EntryIsLive ==
    \A d \in DBs : lock[d] # Nil => txState[lock[d]] = "live"

\* C2: if begin(d) has succeeded and no further request arrives, then
\* eventually the entry for d is absent from the lock map and the engine
\* transaction of that begin has been rolled back.
C2_IdleLockReaped ==
    \A t \in TxIds : \A n \in 0..MaxReq :
        (lock[txDb[t]] = t /\ txState[t] = "live" /\ NoRequestInFlight /\ nReq = n)
            ~> (nReq > n \/ (lock[txDb[t]] = Nil /\ txState[t] = "rolledback"))

\* C3: every engine write transaction opened by a begin request is eventually
\* committed or rolled back, and every begin request waiting for the engine's
\* writer eventually gets it.
C3_WriterNotPinned ==
    /\ \A t \in TxIds : (txState[t] = "live") ~> (txState[t] # "live")
    /\ \A c \in Clients : (hpc[c] = "b_begin") ~> (hpc[c] # "b_begin")

\* the step in which the handler of c's request leaves position p
Leaves(c, p) == hpc[c] = p /\ hpc'[c] # p

\* C4: a tx operation, commit or rollback for a database with no entry in the
\* lock map is refused with not-found, performs no engine operation, and
\* leaves the lock map and the stored data unchanged.
C4_AbsentIsRefused ==
    [][\A c \in Clients :
          (Leaves(c, "wt_get") /\ lock[req[c].db] = Nil)
              => /\ hpc'[c] = "idle"
                 /\ resp'[c].code = "notfound"
                 /\ UNCHANGED <<lock, store, work, txState, txMu, nTx>>]_vars

C4_Witness ==
    \E c \in Clients :
        /\ resp[c].code = "notfound"
        /\ cst[c] = "fn"
        /\ \E t \in TxIds : txState[t] = "rolledback"

\* a value written by a transaction is in the committed data only if that
\* transaction was committed
VisibleOnlyIfCommitted ==
    \A d \in DBs : \A k \in Keys :
        LET v == store[d].kv[k] IN
        (v # None /\ v[1] # 0) => txState[v[1]] = "committed"

\* C5: a write made through tx operations is visible to noTx readers only
\* if its transaction was committed and only after the commit: the committed
\* data changes only by a noTx write or by the commit of a live transaction,
\* which publishes exactly that transaction's view; a transaction ended by
\* rollback or by the watcher leaves the committed data as it was.
C5_Atomic ==
    /\ []VisibleOnlyIfCommitted
    /\ [][\A d \in DBs :
            store'[d] # store[d]
                => \/ \E c \in Clients : Leaves(c, "notx") /\ req[c].db = d
                   \/ \E t \in TxIds :
                         /\ txDb[t] = d
                         /\ txState[t] = "live" /\ txState'[t] = "committed"
                         /\ store'[d] = work[t]]_vars

C5_Witness ==
    \E c \in Clients : \E t \in TxIds :
        /\ txState[t] = "committed"
        /\ resp[c].code = "ok"
        /\ resp[c].val # None /\ resp[c].val[1] = t
        /\ cst[c] = "idle"

\* the handler of c's request runs its tx operation on the live transaction t
RunsOp(c, t, op) ==
    /\ Leaves(c, "wt_fn") /\ htx[c] = t /\ txState[t] = "live"
    /\ req[c].kind = "tx" /\ req[c].op = op

\* what C6 asks of the responses, for the payloads in V
ReadsOwnWrites(V) ==
    \A c \in Clients : \A t \in TxIds :
        /\ RunsOp(c, t, "GET") =>
              LET w == lastW[t][req[c].key] IN
              /\ (w[1] = "put" /\ w[2] \in V)
                    => (resp'[c].code = "ok" /\ resp'[c].val[2] = w[2])
              /\ w[1] = "del" => resp'[c].code # "ok"
        /\ RunsOp(c, t, "FOR_EACH") =>
              \A k \in Keys : lastW[t][k][1] = "put"
                    => (resp'[c].code = "ok" /\ k \in resp'[c].keys)

\* C6 (as stated): within one held transaction, tx GET of k after tx PUT(k, v)
\* returns v, tx GET after tx DEL(k) returns an error, and FOR_EACH returns
\* every key put earlier in the transaction.
C6_ReadsOwnWrites == [][ReadsOwnWrites(Vals)]_vars

\* C6 (amended): the same, for a PUT of a non-empty payload; a GET after a
\* PUT of the empty payload is answered "key not found".
C6_ReadsOwnNonEmptyWrites ==
    [][/\ ReadsOwnWrites(Vals \ {""})
       /\ \A c \in Clients : \A t \in TxIds :
             (RunsOp(c, t, "GET") /\ lastW[t][req[c].key] = <<"put", "">>)
                 => resp'[c].code = "keynotfound"]_vars

C6_Witness ==
    \E c \in Clients : \E t \in TxIds :
        /\ txState[t] = "live"
        /\ lastW[t]["k1"] = <<"put", "a">>
        /\ resp[c].code = "ok" /\ resp[c].val = <<t, "a">>

\* C7: with a non-empty AuthKey, a request whose Authorization header differs
\* from it is answered 401 and changes nothing on the server, and the client's
\* call reports an error; any other request goes on to its handler, which
\* depends on the kind of request alone.
C7_AuthGate ==
    [][\A c \in Clients :
          Leaves(c, "mw") =>
              IF AuthKey # "" /\ req[c].hdr # AuthKey
              THEN /\ hpc'[c] = "idle"
                   /\ resp'[c].code = "unauthorized"
                   /\ cst[c] = "w_begin" => (cst'[c] = "idle" /\ updRes'[c] = "err")
                   /\ UNCHANGED <<lock, stats, journal, nTx, txDb, txState, txMu,
                                  idle, work, store, lastW, wpc, wtx>>
              ELSE /\ hpc'[c] = (CASE req[c].kind = "begin" -> "b_begin"
                                   [] req[c].kind = "notx" -> "notx"
                                   [] OTHER -> "wt_get")
                   /\ resp'[c] = resp[c]
                   /\ UNCHANGED <<lock, stats, journal, nTx, txDb, txState, txMu,
                                  idle, work, store, lastW, wpc, wtx>>]_vars

C7_Witness ==
    \E c \in Clients :
        /\ AuthKey # ""
        /\ resp[c].code = "unauthorized"
        /\ \E d \in DBs : lock[d] # Nil

\* C8: Client.Update returns nil only if the server committed the
\* transaction its callback wrote to.
C8_NilMeansCommitted ==
    \A c \in Clients :
        updRes[c] = "nil" => \A t \in wrote[c] : txState[t] = "committed"

\* no handle of the registry has been closed
NoClose == \A h \in Handles : dbState[h] \in {"none", "open"}

C10_GetReturns ==
    \A g \in Callers : (gpc[g] # "done") ~> (gpc[g] = "done")

\* C11: MultiDB.Close terminates (it does not wait for the lock it holds
\* itself); when it returns the registry is empty and the engine handle of
\* the DB that was registered is closed; a closed handle does not hold the
\* file's lock, so a later Get can open the file again.
C11_CloseTerminates ==
    /\ (cpc = "lock") ~> (cpc = "done")
    /\ [][(cpc = "unlock" /\ cpc' = "done")
            => /\ mdbM' = Nil /\ mdbMux' = Nil
               /\ cdb # Nil => dbState'[cdb] = "closed"]_vars
    /\ [](\A h \in Handles : dbState[h] = "closed" => flock # h)

C11_Witness ==
    /\ cpc = "done" /\ cdb # Nil /\ dbState[cdb] = "closed"
    /\ \E g \in Callers :
          /\ gpc[g] = "done" /\ gerr[g] = "nil"
          /\ gdb[g] # cdb /\ mdbM = gdb[g] /\ dbState[gdb[g]] = "open"

\* ------------------------------------------------------------ Cache[T]
\* T is taken to be a pointer type: a value of T is a reference to an object
\* on the heap, or the zero value (a nil pointer).  The engine holds bytes.

\* db.marshalFn / db.unmarshalFn (json): a value's content <-> its bytes
\* an encoding that loses the value
MarshalLossy(x) == <<"json", "a">>

Marshal(x) == <<"json", x>>
Unmarshal(b) == IF b = None THEN <<"err", "">> ELSE <<"nil", b[2]>>

\* the references held by the cache map, the callers and the locals
Used(cm, v, loc) ==
    {r \in Refs : \/ \E k \in Keys : cm[k] = r
                  \/ \E g \in CacheCallers : v[g] = r \/ loc[g] = r}

\* a new object: the least reference nothing points at
NewRef(cm, v, loc) ==
    CHOOSE r \in Refs \ Used(cm, v, loc) :
        \A q \in Refs \ Used(cm, v, loc) : r <= q

\* the heap after writing content x to object r; objects nothing points at
\* are collected
HeapWith(h, r, x, used) ==
    [q \in Refs |-> IF q \notin used THEN "free"
                    ELSE IF q = r THEN x ELSE h[q]]

\* a Clone that hands back its argument
CloneShared(v, fresh) == v

\* genh.Clone(v, false): the zero value, or a new object with v's content
Clone(v, fresh) == IF v = ZeroT THEN ZeroT ELSE fresh

\* what the map cm holds for key k: no entry, the zero value, or an object
\* with its content in heap h
EntryOf(cm, h, k) ==
    IF cm[k] = NoEntry THEN "absent" ELSE IF cm[k] = ZeroT THEN "zero" ELSE h[cm[k]]

\* a caller starts Cache.Get(key)
CacheGetCall(g, k) ==
    /\ kpc[g] = "idle"
    /\ kpc' = [kpc EXCEPT ![g] = "lookup"]
    /\ kop' = [kop EXCEPT ![g] = "get"]
    /\ kkey' = [kkey EXCEPT ![g] = k]
    /\ kv' = [kv EXCEPT ![g] = ZeroT]
    /\ kerr' = [kerr EXCEPT ![g] = "nil"]
    /\ kfound' = [kfound EXCEPT ![g] = TRUE]
    /\ heap' = HeapWith(heap, Nil, "free", Used(cacheM, kv', kloc))
    /\ UNCHANGED <<cacheM, cacheMux, bkt, wtxOwner, wtxBkt, kloc>>
    /\ UNCHANGED nonCacheVars

\* c.m.MustGet finds the key (a hit: Get returns a clone of the entry), or
\* does not and goes on to call fn.  LMap is not part of this repository:
\* its MustGet may call fn with the map's lock held (cacheMux = g) or after
\* releasing it (cacheMux = Nil).
CacheGetLookup(g) ==
    /\ kpc[g] = "lookup"
    /\ cacheMux = Nil
    /\ LET k == kkey[g]
           e == cacheM[k]
           fresh == NewRef(cacheM, kv, kloc)
           v == Clone(e, fresh)
       IN IF e # NoEntry
          THEN /\ kv' = [kv EXCEPT ![g] = v]
               /\ heap' = HeapWith(heap, v, IF e = ZeroT THEN "free" ELSE heap[e],
                                   Used(cacheM, kv', kloc))
               /\ kpc' = [kpc EXCEPT ![g] = "idle"]
               /\ UNCHANGED <<cacheMux, kfound>>
          ELSE /\ cacheMux' \in {g, Nil}
               /\ kfound' = [kfound EXCEPT ![g] = FALSE]
               /\ kpc' = [kpc EXCEPT ![g] = "load"]
               /\ UNCHANGED <<kv, heap>>
    /\ UNCHANGED <<cacheM, bkt, wtxOwner, wtxBkt, kop, kkey, kloc, kerr>>
    /\ UNCHANGED nonCacheVars

\* fn: v, err = c.db.Get(c.bucket, key), a read of the committed bucket
CacheGetLoad(g) ==
    /\ kpc[g] = "load"
    /\ LET u == Unmarshal(bkt[kkey[g]])
           fresh == NewRef(cacheM, kv, kloc)
       IN IF u[1] = "nil"
          THEN /\ kloc' = [kloc EXCEPT ![g] = fresh]
               /\ heap' = HeapWith(heap, fresh, u[2], Used(cacheM, kv, kloc'))
               /\ kpc' = [kpc EXCEPT ![g] = "set"]
               /\ UNCHANGED kerr
          ELSE /\ kerr' = [kerr EXCEPT ![g] = "err"]
               /\ kpc' = [kpc EXCEPT ![g] = "store"]
               /\ UNCHANGED <<kloc, heap>>
    /\ UNCHANGED <<cacheM, cacheMux, bkt, wtxOwner, wtxBkt, kop, kkey, kv, kfound>>
    /\ UNCHANGED nonCacheVars

\* fn: c.m.Set(key, v) after a load without error
CacheGetSet(g) ==
    /\ kpc[g] = "set"
    /\ cacheMux = Nil
    /\ cacheM' = [cacheM EXCEPT ![kkey[g]] = kloc[g]]
    /\ heap' = HeapWith(heap, Nil, "free", Used(cacheM', kv, kloc))
    /\ kpc' = [kpc EXCEPT ![g] = "store"]
    /\ UNCHANGED <<cacheMux, bkt, wtxOwner, wtxBkt, kop, kkey, kv, kloc, kerr, kfound>>
    /\ UNCHANGED nonCacheVars

\* MustGet stores what fn returned and returns it; Get returns a clone of it
CacheGetStore(g) ==
    /\ kpc[g] = "store"
    /\ cacheMux \in {g, Nil}
    /\ LET fresh == NewRef(cacheM, kv, kloc)
           v == Clone(kloc[g], fresh)
       IN /\ cacheM' = [cacheM EXCEPT ![kkey[g]] = kloc[g]]
          /\ kv' = [kv EXCEPT ![g] = v]
          /\ kloc' = [kloc EXCEPT ![g] = ZeroT]
          /\ heap' = HeapWith(heap, v,
                              IF kloc[g] = ZeroT THEN "free" ELSE heap[kloc[g]],
                              Used(cacheM', kv', kloc'))
    /\ cacheMux' = Nil
    /\ kpc' = [kpc EXCEPT ![g] = "idle"]
    /\ UNCHANGED <<bkt, wtxOwner, wtxBkt, kop, kkey, kerr, kfound>>
    /\ UNCHANGED nonCacheVars

\* a caller starts Cache.Put(key, v) with a value v of its own
CachePutCall(g, k, x) ==
    /\ kpc[g] = "idle"
    /\ LET fresh == NewRef(cacheM, [kv EXCEPT ![g] = ZeroT], kloc)
       IN /\ kv' = [kv EXCEPT ![g] = fresh]
          /\ heap' = HeapWith(heap, fresh, x, Used(cacheM, kv', kloc))
    /\ kpc' = [kpc EXCEPT ![g] = "begin"]
    /\ kop' = [kop EXCEPT ![g] = "put"]
    /\ kkey' = [kkey EXCEPT ![g] = k]
    /\ kerr' = [kerr EXCEPT ![g] = "nil"]
    /\ UNCHANGED <<cacheM, cacheMux, bkt, wtxOwner, wtxBkt, kloc, kfound>>
    /\ UNCHANGED nonCacheVars

\* a caller starts Cache.Delete(key)
CacheDeleteCall(g, k) ==
    /\ kpc[g] = "idle"
    /\ kpc' = [kpc EXCEPT ![g] = "begin"]
    /\ kop' = [kop EXCEPT ![g] = "del"]
    /\ kkey' = [kkey EXCEPT ![g] = k]
    /\ kv' = [kv EXCEPT ![g] = ZeroT]
    /\ kerr' = [kerr EXCEPT ![g] = "nil"]
    /\ heap' = HeapWith(heap, Nil, "free", Used(cacheM, kv', kloc))
    /\ UNCHANGED <<cacheM, cacheMux, bkt, wtxOwner, wtxBkt, kloc, kfound>>
    /\ UNCHANGED nonCacheVars

\* Cache.Update: the engine's write transaction begins and ufn calls fn.
\* Put's fn is tx.PutValue(bucket, key, v), and ufn writes the pair again;
\* Delete's fn is tx.Delete(bucket, key) and returns ErrDeleteKey.
CacheUpdateBegin(g) ==
    /\ kpc[g] = "begin"
    /\ wtxOwner = Nil
    /\ wtxOwner' = g
    /\ wtxBkt' = [bkt EXCEPT ![kkey[g]] =
                    IF kop[g] = "put" THEN Marshal(heap[kv[g]]) ELSE None]
    /\ kpc' = [kpc EXCEPT ![g] = "mset"]
    /\ UNCHANGED <<heap, cacheM, cacheMux, bkt, kop, kkey, kv, kloc, kerr, kfound>>
    /\ UNCHANGED nonCacheVars

\* ufn: c.m.Set(key, genh.Clone(v, false)), or c.m.Delete(key) on ErrDeleteKey,
\* inside the write transaction
CacheUpdateMap(g) ==
    /\ kpc[g] = "mset"
    /\ cacheMux = Nil
    /\ LET fresh == NewRef(cacheM, kv, kloc)
           e == IF kop[g] = "put" THEN Clone(kv[g], fresh) ELSE NoEntry
       IN /\ cacheM' = [cacheM EXCEPT ![kkey[g]] = e]
          /\ heap' = HeapWith(heap, e,
                              IF kop[g] = "put" THEN heap[kv[g]] ELSE "free",
                              Used(cacheM', kv, kloc))
    /\ kpc' = [kpc EXCEPT ![g] = "commit"]
    /\ UNCHANGED <<cacheMux, bkt, wtxOwner, wtxBkt, kop, kkey, kv, kloc, kerr, kfound>>
    /\ kold' = [kold EXCEPT ![g] = EntryOf(cacheM, heap, kkey[g])]
    /\ UNCHANGED <<rboltVars, mdbVars, remVars, segVars, jrnVars, reaped, began, everc,
                   aliVars, doVars, feVars>>

\* db.Update / db.Batch commits the transaction (or fails to) and returns
CacheUpdateCommit(g, ok) ==
    /\ kpc[g] = "commit"
    /\ wtxOwner = g
    /\ bkt' = IF ok THEN wtxBkt ELSE bkt
    /\ wtxBkt' = [k \in Keys |-> None]
    /\ wtxOwner' = Nil
    /\ kerr' = [kerr EXCEPT ![g] = IF ok THEN "nil" ELSE "err"]
    /\ kpc' = [kpc EXCEPT ![g] = "idle"]
    /\ UNCHANGED <<heap, cacheM, cacheMux, kop, kkey, kv, kloc, kfound>>
    /\ kold' = [kold EXCEPT ![g] = "absent"]
    /\ UNCHANGED <<rboltVars, mdbVars, remVars, segVars, jrnVars, reaped, began, everc,
                   aliVars, doVars, feVars>>

\* a caller changes the object it holds: the value Get returned to it, or
\* the value it passed to Put
Mutate(g, x) ==
    /\ kpc[g] = "idle"
    /\ kv[g] \in Refs
    /\ heap[kv[g]] # x
    /\ heap' = [heap EXCEPT ![kv[g]] = x]
    /\ UNCHANGED <<cacheM, cacheMux, bkt, wtxOwner, wtxBkt, kpc, kop, kkey, kv, kloc, kerr, kfound>>
    /\ UNCHANGED nonCacheVars

CacheNext ==
    \E g \in CacheCallers :
        \/ \E k \in Keys : CacheGetCall(g, k)
        \/ CacheGetLookup(g)
        \/ CacheGetLoad(g)
        \/ CacheGetSet(g)
        \/ CacheGetStore(g)
        \/ \E k \in Keys, x \in Contents : CachePutCall(g, k, x)
        \/ \E k \in Keys : CacheDeleteCall(g, k)
        \/ CacheUpdateBegin(g)
        \/ CacheUpdateMap(g)
        \/ \E ok \in BOOLEAN : CacheUpdateCommit(g, ok)
        \/ \E x \in Contents : Mutate(g, x)

CacheSpec == InitNoAuth /\ [][CacheNext]_vars

\* what a Get that hits returns for the key: the content of the entry
EntryContent(k) ==
    IF cacheM[k] \in Refs THEN heap[cacheM[k]] ELSE "none"

\* C12: a value that Cache.Get returned, on a hit or on a miss, is not the
\* object the cache map holds, and a caller that mutates the value it got
\* from Get changes the content of no cache entry, so later Gets return what
\* they would have returned without the mutation.
C12_GetReturnsClone ==
    /\ [](\A g \in CacheCallers, k \in Keys :
            (kop[g] = "get" /\ kpc[g] = "idle" /\ kv[g] \in Refs)
                => cacheM[k] # kv[g])
    /\ [][\A g \in CacheCallers :
            (kop[g] = "get" /\ \E x \in Contents : Mutate(g, x))
                => \A k \in Keys : EntryContent(k)' = EntryContent(k)]_vars

\* one caller got its value on a hit and another on a miss; both changed
\* theirs, and the entry still has the other content
C12_Witness ==
    \E g1, g2 \in CacheCallers :
        /\ kop[g1] = "get" /\ kpc[g1] = "idle" /\ kfound[g1] /\ kv[g1] \in Refs
        /\ kop[g2] = "get" /\ kpc[g2] = "idle" /\ ~kfound[g2] /\ kv[g2] \in Refs
        /\ kv[g1] # kv[g2]
        /\ bkt["k1"] = Marshal("a") /\ EntryContent("k1") = "a"
        /\ heap[kv[g1]] = "b" /\ heap[kv[g2]] = "b"

Quiescent == \A g \in CacheCallers : kpc[g] = "idle"

\* C14: in every quiescent state each entry of the cache map is a value whose
\* encoding is what the engine stores for that key; the map has no entry for
\* a key the engine does not hold.
C14_CacheAgreesWithEngine ==
    Quiescent =>
        \A k \in Keys :
            cacheM[k] # NoEntry =>
                /\ cacheM[k] \in Refs
                /\ Unmarshal(bkt[k]) = <<"nil", heap[cacheM[k]]>>

\* --------------------------------------- the rbolt client and its cache
\* One client, one database, one bucket.  A request and the server's
\* handling of it are one step here (the handlers' own steps are the
\* subject of Spec); the client's goroutines interleave between requests.

\* a server that stores no bytes for any value
ServerOutEmpty(v) == <<"raw", "#">>

\* req.Value as handleTx / handleNoTx store it: a []byte as sent, any other
\* value as its msgpack encoding
ServerOut(v) == IF v \in ByteVals THEN <<"raw", v>> ELSE <<"mp", v>>

\* len(out) == 0
LenZero(b) == b = None \/ b = <<"raw", "#">>

\* the value the client decodes from a response body
DecodeMsgpack(b) == b[2]

\* the switch on req.Op (opGet, opPut, opDel), on the bucket and sequence s
\* the request works on: <<error, out, the bucket and sequence afterwards>>
SrvOp(op, k, v, s) ==
    CASE op = "GET" ->
           LET out == TxGetBytes(s.b, k) IN
           IF LenZero(out) THEN <<"keynotfound", None, s>> ELSE <<"ok", out, s>>
      [] op = "PUT" ->
           <<"ok", None, [s EXCEPT !.b = TxPutBytes(s.b, k, ServerOut(v))]>>
      [] OTHER ->
           <<TxDelete(s.b, k)[1], None, [s EXCEPT !.b = TxDelete(s.b, k)[2]]>>

\* the Tx object has been returned by Client.Begin
Returned(t) ==
    t \in 1..nTxObj /\ \A g \in Goroutines : ~(rpc[g] = "begun" /\ rtx[g] = t)

\* tx.updates of the Tx objects whose thunks can still run: a Tx that is no
\* longer registered and has no Commit in flight never runs them
Pending(u, lk, pc, tx) ==
    [t \in 1..MaxBegin |->
        IF lk = t \/ \E g \in Goroutines : pc[g] # "idle" /\ tx[g] = t
        THEN u[t] ELSE <<>>]

RECURSIVE ApplyAll(_, _)
\* for _, fn := range tx.updates { fn() }: Set or DeleteChild, in order
ApplyAll(u, m) ==
    IF u = <<>> THEN m
    ELSE ApplyAll(Tail(u), [m EXCEPT ![Head(u)[1]] = Head(u)[2]])

\* thunks that run whatever the server answered
RunUpdatesAlways(ok, u, m) == ApplyAll(u, m)

\* Tx.Commit runs the thunks after a request without error
RunUpdates(ok, u, m) == IF ok THEN ApplyAll(u, m) ELSE m

\* an ownership test that always passes
OwnsAlways(m, t) == TRUE

\* gotLock = m[tx.db] == tx
Owns(m, t) == m = t

\* Client.Get: the cached value, or a noTx GET whose result is cached
ClientGet(k) ==
    /\ IF ccache[k] # Absent
       THEN /\ rret' = <<"get", "nil", ccache[k]>>
            /\ UNCHANGED ccache
       ELSE LET o == SrvOp("GET", k, "", rdb) IN
            IF o[1] = "ok"
            THEN /\ ccache' = [ccache EXCEPT ![k] = DecodeMsgpack(o[2])]
                 /\ rret' = <<"get", "nil", DecodeMsgpack(o[2])>>
            ELSE /\ rret' = <<"get", "err", Absent>>
                 /\ UNCHANGED ccache
    /\ UNCHANGED <<rdb, rlive, rview, clk, nTxObj, updates, rpc, rtx, rkind,
                   sent, called, lastNoTx, lastIdx>>
    /\ UNCHANGED nonRemVars

\* Client.Put: a noTx PUT (it waits for the database's writer), then Set
ClientPut(k, v) ==
    /\ ~rlive
    /\ rdb' = SrvOp("PUT", k, v, rdb)[3]
    /\ ccache' = [ccache EXCEPT ![k] = v]
    /\ rret' = <<"put", "nil", Absent>>
    /\ lastNoTx' = [lastNoTx EXCEPT ![k] = <<"put", v, FALSE>>]
    /\ UNCHANGED <<rlive, rview, clk, nTxObj, updates, rpc, rtx, rkind, sent,
                   called, lastIdx>>
    /\ UNCHANGED nonRemVars

\* Client.Delete: a noTx DEL, then DeleteChild when it succeeded
ClientDelete(k) ==
    /\ ~rlive
    /\ LET o == SrvOp("DEL", k, "", rdb) IN
       /\ rdb' = o[3]
       /\ rret' = <<"del", IF o[1] = "ok" THEN "nil" ELSE "err", Absent>>
       /\ ccache' = IF o[1] = "ok" THEN [ccache EXCEPT ![k] = Absent] ELSE ccache
       /\ lastNoTx' = IF o[1] = "ok"
                      THEN [lastNoTx EXCEPT ![k] = <<"del", Absent, FALSE>>]
                      ELSE lastNoTx
    /\ UNCHANGED <<rlive, rview, clk, nTxObj, updates, rpc, rtx, rkind, sent,
                   called, lastIdx>>
    /\ UNCHANGED nonRemVars

\* Client.ClearCache
ClearCache ==
    /\ \E k \in Keys : ccache[k] # Absent
    /\ ccache' = [k \in Keys |-> Absent]
    /\ lastNoTx' = [k \in Keys |-> [lastNoTx[k] EXCEPT ![3] = TRUE]]
    /\ rret' = <<"clear", "nil", Absent>>
    /\ UNCHANGED <<rdb, rlive, rview, clk, nTxObj, updates, rpc, rtx, rkind,
                   sent, called, lastIdx>>
    /\ UNCHANGED nonRemVars

\* Client.Begin: POST tx/begin (db.Begin(true) waits for the writer); the
\* server opens the transaction and registers it
ClientBegin(g) ==
    /\ rpc[g] = "idle"
    /\ nTxObj < MaxBegin
    /\ ~rlive
    /\ rlive' = TRUE
    /\ rview' = rdb
    /\ nTxObj' = nTxObj + 1
    /\ rtx' = [rtx EXCEPT ![g] = nTxObj + 1]
    /\ rpc' = [rpc EXCEPT ![g] = "begun"]
    /\ UNCHANGED <<rdb, ccache, clk, updates, rkind, rret, sent, called,
                   lastNoTx, lastIdx>>
    /\ UNCHANGED nonRemVars

\* Client.Begin: c.locks.Set(db, tx) and return tx
ClientBeginSet(g) ==
    /\ rpc[g] = "begun"
    /\ clk' = rtx[g]
    /\ rtx' = [rtx EXCEPT ![g] = Nil]
    /\ rpc' = [rpc EXCEPT ![g] = "idle"]
    /\ rret' = <<"begin", "nil", Absent>>
    /\ updates' = Pending(updates, clk', rpc', rtx')
    /\ UNCHANGED <<rdb, rlive, rview, ccache, nTxObj, rkind, sent,
                   called, lastNoTx, lastIdx>>
    /\ UNCHANGED nonRemVars

\* Tx.Put (v is a value) and Tx.Delete (v = Absent): POST tx/<db>; the
\* server runs the operation on the transaction registered for the db, if
\* there is one; without error the thunk is appended
TxWrite(t, k, v) ==
    /\ Returned(t)
    /\ Len(updates[t]) < MaxUpdates
    /\ LET o == SrvOp(IF v = Absent THEN "DEL" ELSE "PUT", k, v, rview)
           ok == rlive /\ o[1] = "ok"
       IN /\ rview' = IF rlive THEN o[3] ELSE rview
          /\ updates' = IF ok THEN Pending([updates EXCEPT ![t] = Append(@, <<k, v>>)],
                                          clk, rpc, rtx)
                        ELSE updates
          /\ rret' = <<IF v = Absent THEN "txdel" ELSE "txput",
                       IF ok THEN "nil" ELSE "err", Absent>>
    /\ UNCHANGED <<rdb, rlive, ccache, clk, nTxObj, rpc, rtx, rkind, sent,
                   called, lastNoTx, lastIdx>>
    /\ UNCHANGED nonRemVars

\* Tx.Commit / Tx.Rollback: the test under c.locks.Update
TxEndCheck(g, t, kind) ==
    /\ rpc[g] = "idle"
    /\ Returned(t)
    /\ called' = [called EXCEPT ![t] = TRUE]
    /\ IF Owns(clk, t)
       THEN /\ clk' = Nil
            /\ rpc' = [rpc EXCEPT ![g] = "sent"]
            /\ rtx' = [rtx EXCEPT ![g] = t]
            /\ rkind' = [rkind EXCEPT ![g] = kind]
            /\ sent' = [sent EXCEPT ![t] = @ + 1]
            /\ UNCHANGED rret
       ELSE /\ rret' = <<kind, "nolock", Absent>>
            /\ UNCHANGED <<clk, rpc, rtx, rkind, sent>>
    /\ UNCHANGED <<rdb, rlive, rview, ccache, nTxObj, updates, lastNoTx, lastIdx>>
    /\ UNCHANGED nonRemVars

\* Tx.Commit / Tx.Rollback: DELETE tx/commit or tx/rollback; the server
\* ends the transaction registered for the db, or answers not-found; Commit
\* then runs the thunks
TxEndReq(g) ==
    /\ rpc[g] = "sent"
    /\ LET commit == rkind[g] = "commit" IN
       /\ rdb' = IF rlive /\ commit THEN rview ELSE rdb
       /\ ccache' = RunUpdates(rlive /\ commit, updates[rtx[g]], ccache)
       /\ lastNoTx' = IF rlive /\ commit
                      THEN [k \in Keys |-> <<"none", Absent, FALSE>>] ELSE lastNoTx
       /\ rret' = <<rkind[g], IF rlive THEN "nil" ELSE "err", Absent>>
    /\ rlive' = FALSE
    /\ rview' = NoView
    /\ rpc' = [rpc EXCEPT ![g] = "idle"]
    /\ rtx' = [rtx EXCEPT ![g] = Nil]
    /\ updates' = Pending(updates, clk, rpc', rtx')
    /\ UNCHANGED <<clk, nTxObj, rkind, sent, called, lastIdx>>
    /\ UNCHANGED nonRemVars

\* checkLock: the idle transaction is rolled back and unregistered
Reap ==
    /\ rlive
    /\ rlive' = FALSE
    /\ rview' = NoView
    /\ UNCHANGED <<rdb, ccache, clk, nTxObj, updates, rpc, rtx, rkind, rret,
                   sent, called, lastNoTx, lastIdx>>
    /\ UNCHANGED nonRemVars

ClientNext ==
    \/ \E k \in Keys : ClientGet(k)
    \/ \E k \in Keys, v \in CliVals : ClientPut(k, v)
    \/ \E k \in Keys : ClientDelete(k)
    \/ ClearCache
    \/ \E g \in Goroutines : ClientBegin(g)
    \/ \E g \in Goroutines : ClientBeginSet(g)
    \/ \E t \in 1..MaxBegin, k \in Keys, v \in CliVals \cup {Absent} : TxWrite(t, k, v)
    \/ \E g \in Goroutines, t \in 1..MaxBegin, kind \in {"commit", "rollback"} :
          TxEndCheck(g, t, kind)
    \/ \E g \in Goroutines : TxEndReq(g)
    \/ Reap

ClientSpec == InitNoAuth /\ [][ClientNext]_vars

\* ------------------------------------------------- DB: pairs and sequence
\* The database of the section above, used through *DB by the process that
\* opened it, next to the server's transaction on it.

\* a PutAny that marshals every value
PutAnyMarshalsAll(v) == Marshal(v)

\* DB.PutAny: a []byte is stored as it is, any other value marshalled
PutAnyBytes(v) == IF v \in ByteVals THEN <<"raw", v>> ELSE Marshal(v)

\* Tx.GetAny on bucket b with out a *[]byte (kind "bytes") or a pointer to
\* another type: <<error, *out>>
GetAnyOut(b, k, kind) ==
    LET val == b.kv[k] IN
    IF ~b.exists THEN <<"bucketnotfound", Absent>>
    ELSE IF kind = "bytes"
         THEN <<"nil", IF val = None THEN "#"
                       ELSE IF val[1] = "raw" THEN val[2] ELSE "#enc">>
         ELSE IF val # None /\ val[1] = "json"
              THEN <<Unmarshal(val)[1], Unmarshal(val)[2]>>
              ELSE <<"err", Absent>>

\* DB.CurrentIndex
CurrentIndex == IF rdb.b.exists THEN rdb.seq ELSE 0

\* DB.Put
DBPut(k, v) ==
    /\ ~rlive
    /\ rdb' = [rdb EXCEPT !.b = TxPutBytes(rdb.b, k, PutAnyBytes(v))]
    /\ lastNoTx' = [lastNoTx EXCEPT ![k] = <<"put", v, FALSE>>]
    /\ rret' = <<"dbput", "nil", Absent>>
    /\ UNCHANGED <<rlive, rview, ccache, clk, nTxObj, updates, rpc, rtx, rkind,
                   sent, called, lastIdx>>
    /\ UNCHANGED nonRemVars

\* DB.Delete
DBDelete(k) ==
    /\ ~rlive
    /\ rdb' = [rdb EXCEPT !.b = TxDelete(rdb.b, k)[2]]
    /\ lastNoTx' = IF TxDelete(rdb.b, k)[1] = "ok"
                   THEN [lastNoTx EXCEPT ![k] = <<"del", Absent, FALSE>>]
                   ELSE lastNoTx
    /\ rret' = <<"dbdel", IF TxDelete(rdb.b, k)[1] = "ok" THEN "nil" ELSE "err", Absent>>
    /\ UNCHANGED <<rlive, rview, ccache, clk, nTxObj, updates, rpc, rtx, rkind,
                   sent, called, lastIdx>>
    /\ UNCHANGED nonRemVars

\* DB.Get
DBGet(k, kind) ==
    /\ rret' = <<"dbget", GetAnyOut(rdb.b, k, kind)[1], GetAnyOut(rdb.b, k, kind)[2]>>
    /\ UNCHANGED <<rdb, rlive, rview, ccache, clk, nTxObj, updates, rpc, rtx,
                   rkind, sent, called, lastNoTx, lastIdx>>
    /\ UNCHANGED nonRemVars

\* DB.GetBytes: Tx.GetBytes with clone inside db.View, whose function
\* returns nil whatever Tx.GetBytes found: <<error, out>>
GetBytesOut(b, k) ==
    LET val == TxGetBytes(b, k) IN
    <<"nil", IF val = None THEN "#"
             ELSE IF val[1] = "raw" THEN val[2] ELSE "#enc">>

DBGetBytes(k) ==
    /\ rret' = <<"dbgetbytes", GetBytesOut(rdb.b, k)[1], GetBytesOut(rdb.b, k)[2]>>
    /\ UNCHANGED <<rdb, rlive, rview, ccache, clk, nTxObj, updates, rpc, rtx,
                   rkind, sent, called, lastNoTx, lastIdx>>
    /\ UNCHANGED nonRemVars

\* a NextSequence that hands out the counter without advancing it
NextSequenceStuck(n) == n

\* bbolt's Bucket.NextSequence
NextSequence(n) == n + 1

\* DB.NextIndex
DBNextIndex ==
    /\ ~rlive
    /\ rdb.seq < MaxSeq
    /\ rdb' = [b |-> [rdb.b EXCEPT !.exists = TRUE], seq |-> NextSequence(rdb.seq)]
    /\ lastIdx' = [ret |-> rdb'.seq, mark |-> rdb'.seq]
    /\ rret' = <<"seq", "nil", Absent>>
    /\ UNCHANGED <<rlive, rview, ccache, clk, nTxObj, updates, rpc, rtx, rkind,
                   sent, called, lastNoTx>>
    /\ UNCHANGED nonRemVars

\* a SetSequence that stores another number
SetSequenceOff(n) == n + 1

\* bbolt's Bucket.SetSequence
SetSequence(n) == n

\* DB.SetNextIndex
DBSetNextIndex(n) ==
    /\ ~rlive
    /\ rdb' = [b |-> [rdb.b EXCEPT !.exists = TRUE], seq |-> SetSequence(n)]
    /\ lastIdx' = [lastIdx EXCEPT !.mark = n]
    /\ rret' = <<"setseq", "nil", Absent>>
    /\ UNCHANGED <<rlive, rview, ccache, clk, nTxObj, updates, rpc, rtx, rkind,
                   sent, called, lastNoTx>>
    /\ UNCHANGED nonRemVars

\* Client.NextIndex: a noTx SEQ, tx.NextIndex inside db.Update
NoTxNextIndex ==
    /\ ~rlive
    /\ rdb.seq < MaxSeq
    /\ IF rdb.b.exists
       THEN /\ rdb' = [rdb EXCEPT !.seq = NextSequence(rdb.seq)]
            /\ lastIdx' = [ret |-> rdb'.seq, mark |-> rdb'.seq]
            /\ rret' = <<"seq", "nil", Absent>>
       ELSE /\ rret' = <<"seq", "panic", Absent>>
            /\ UNCHANGED <<rdb, lastIdx>>
    /\ UNCHANGED <<rlive, rview, ccache, clk, nTxObj, updates, rpc, rtx, rkind,
                   sent, called, lastNoTx>>
    /\ UNCHANGED nonRemVars

\* Tx.NextIndex of the client: a tx SEQ, on the transaction registered for
\* the db
TxNextIndex(t) ==
    /\ Returned(t)
    /\ rview.seq < MaxSeq
    /\ IF rlive /\ rview.b.exists
       THEN /\ rview' = [rview EXCEPT !.seq = NextSequence(rview.seq)]
            /\ lastIdx' = [ret |-> rview'.seq, mark |-> rview'.seq]
            /\ rret' = <<"txseq", "nil", Absent>>
       ELSE /\ rret' = <<"txseq", IF rlive THEN "panic" ELSE "err", Absent>>
            /\ UNCHANGED <<rview, lastIdx>>
    /\ UNCHANGED <<rdb, rlive, ccache, clk, nTxObj, updates, rpc, rtx, rkind,
                   sent, called, lastNoTx>>
    /\ UNCHANGED nonRemVars

DBNext ==
    \/ \E k \in Keys, v \in DbVals : DBPut(k, v)
    \/ \E k \in Keys : DBDelete(k)
    \/ \E k \in Keys, kind \in {"bytes", "val"} : DBGet(k, kind)
    \/ \E k \in Keys : DBGetBytes(k)
    \/ DBNextIndex
    \/ \E n \in 0..MaxSeq : DBSetNextIndex(n)
    \/ NoTxNextIndex
    \/ \E t \in 1..MaxBegin : TxNextIndex(t)
    \/ \E g \in Goroutines : ClientBegin(g)
    \/ \E g \in Goroutines : ClientBeginSet(g)
    \/ \E g \in Goroutines, t \in 1..MaxBegin, kind \in {"commit", "rollback"} :
          TxEndCheck(g, t, kind)
    \/ \E g \in Goroutines : TxEndReq(g)
    \/ Reap

DBSpec == InitNoAuth /\ [][DBNext]_vars

\* C15: Tx.Put and Tx.Delete leave the client cache as it is; the cache
\* changes of a transaction are made by Tx.Commit, after the server answered
\* the commit request without error, as the thunks in call order; a commit
\* request that fails, a Rollback and the reaping of the transaction leave
\* the cache as it is.
C15_ThunksAfterAck ==
    [][/\ \A t \in 1..MaxBegin, k \in Keys, v \in CliVals \cup {Absent} :
            TxWrite(t, k, v) => ccache' = ccache
       /\ \A g \in Goroutines :
            TxEndReq(g) =>
                ccache' = IF rkind[g] = "commit" /\ rret'[2] = "nil"
                          THEN ApplyAll(updates[rtx[g]], ccache)
                          ELSE ccache
       /\ \A g \in Goroutines, t \in 1..MaxBegin, kind \in {"commit", "rollback"} :
            TxEndCheck(g, t, kind) => ccache' = ccache
       /\ Reap => ccache' = ccache]_vars

\* a commit was acknowledged and its thunk put into the cache a value that
\* only the transaction wrote
C15_Witness ==
    /\ rret = <<"commit", "nil", Absent>>
    /\ ccache["k1"] = "a"
    /\ rdb.b.kv["k1"] = <<"mp", "a">>
    /\ lastNoTx["k1"][1] = "none"

\* C16 as stated: once Commit or Rollback was called on a Tx, exactly one
\* call has found the lock map pointing at the Tx and sent a request.
C16_ExactlyOneSends ==
    \A t \in 1..MaxBegin : called[t] => sent[t] = 1

\* C16: at most one Commit/Rollback call on a Tx finds the lock map pointing
\* at the Tx; that call removes the mapping and sends the request, every
\* other call returns 'no lock' and sends nothing; no call finds the mapping
\* only when another Begin of the client replaced it before the first call.
C16_AtMostOneSends ==
    /\ [](\A t \in 1..MaxBegin :
            /\ sent[t] <= 1
            /\ (called[t] /\ sent[t] = 0) => \E u \in 1..nTxObj : u # t)
    /\ [][\A g \in Goroutines, t \in 1..MaxBegin, kind \in {"commit", "rollback"} :
            TxEndCheck(g, t, kind) =>
                IF clk = t
                THEN clk' = Nil /\ rpc'[g] = "sent" /\ sent'[t] = 1
                ELSE rret' = <<kind, "nolock", Absent>> /\ rpc'[g] = "idle"
                     /\ sent' = sent /\ clk' = clk]_vars

\* while one goroutine's Commit of the Tx is in flight, another call on the
\* same Tx returned 'no lock'
C16_Witness ==
    /\ nTxObj = 1
    /\ \E g \in Goroutines : rpc[g] = "sent" /\ rtx[g] = 1 /\ rkind[g] = "commit"
    /\ rret = <<"rollback", "nolock", Absent>>
    /\ sent[1] = 1

\* what Client.Get must return for key k, given the last successful noTx
\* write of k, for the written values in V
GetAfter(k, V) ==
    CASE lastNoTx[k][1] = "put" /\ lastNoTx[k][2] \in V ->
           rret' = <<"get", "nil", lastNoTx[k][2]>>
      [] lastNoTx[k][1] = "del" -> rret'[2] = "err"
      [] OTHER -> TRUE

KindOf(v) == IF v \in ByteVals THEN "bytes" ELSE "val"

\* C18: DB.Get of key k into an out of the value's type yields the value of
\* the last successful DB.Put of k when no Delete of k followed it, and
\* DB.Put leaves the bucket in existence.
C18_GetYieldsLastPut ==
    /\ [][\A k \in Keys, kind \in {"bytes", "val"} :
            (DBGet(k, kind) /\ lastNoTx[k][1] = "put" /\ kind = KindOf(lastNoTx[k][2]))
                => rret' = <<"dbget", "nil", lastNoTx[k][2]>>]_vars
    /\ [][\A k \in Keys, v \in DbVals :
            DBPut(k, v) => rdb'.b.exists /\ rdb'.b.kv[k] # None]_vars

\* a Get that returned the second of two values put under the key, into a
\* bucket that the first Put created
C18_Witness ==
    /\ rret = <<"dbget", "nil", "a">>
    /\ lastNoTx["k1"] = <<"put", "a", FALSE>>
    /\ rdb.b.kv["k1"] = Marshal("a")
    /\ rdb.seq = 0 /\ nTxObj = 0

\* a successful NextIndex call of any kind
NextIndexStep ==
    /\ \/ DBNextIndex
       \/ NoTxNextIndex
       \/ \E t \in 1..MaxBegin : TxNextIndex(t)
    /\ rret'[2] = "nil"

\* C19 as stated: every value NextIndex returns is greater than the one
\* returned before (or set before), whichever way the calls are issued, and
\* when no transaction is open CurrentIndex is the last value returned.
C19_StrictlyIncreasing ==
    /\ [][NextIndexStep => lastIdx'.ret > lastIdx.mark]_vars
    /\ []((~rlive /\ lastIdx.mark = lastIdx.ret) => CurrentIndex = lastIdx.ret)

\* C19: NextIndex returns one more than the counter its transaction sees:
\* more than CurrentIndex at the time of the call and, inside a server
\* transaction, more than the values returned earlier in it.  The committed
\* counter goes down only by SetNextIndex, so the values returned outside
\* transactions and inside transactions that commit are strictly
\* increasing; a call outside a transaction and a commit leave CurrentIndex
\* at the last value returned there.
C19_IncreasingWhenCommitted ==
    /\ [][NextIndexStep =>
            /\ lastIdx'.ret > CurrentIndex
            /\ rlive => lastIdx'.ret = rview.seq + 1
            /\ ~rlive => CurrentIndex' = lastIdx'.ret]_vars
    /\ [][(\A n \in 0..MaxSeq : ~DBSetNextIndex(n)) => CurrentIndex' >= CurrentIndex]_vars
    /\ [][\A g \in Goroutines :
            (TxEndReq(g) /\ rlive /\ rkind[g] = "commit" /\ rview.b.exists)
                => CurrentIndex' = rview.seq]_vars

\* NextIndex inside a server transaction returned one more than
\* CurrentIndex, which stays where it was until the transaction commits
C19_Witness ==
    /\ rlive
    /\ rret = <<"txseq", "nil", Absent>>
    /\ lastIdx = [ret |-> 2, mark |-> 2]
    /\ rview.seq = 2
    /\ CurrentIndex = 1

\* C20 as stated: CurrentIndex is at most the last value NextIndex returned.
C20_AtMostLastNextIndex == CurrentIndex <= lastIdx.ret

\* C20: CurrentIndex is at most the value most recently returned by
\* NextIndex or passed to SetNextIndex.
C20_AtMostLastMark == CurrentIndex <= lastIdx.mark

\* SetNextIndex raised the counter above every value NextIndex returned
C20_Witness ==
    /\ lastIdx.ret = 1 /\ lastIdx.mark = 3
    /\ CurrentIndex = 3
    /\ rret = <<"setseq", "nil", Absent>>

\* a read of the database: DB.Get or DB.GetBytes
ReadStep(k) == DBGetBytes(k) \/ \E kind \in {"bytes", "val"} : DBGet(k, kind)

\* C21: DB.Get and DB.GetBytes on a bucket that does not exist fail with
\* bucket-not-found; DB.GetBytes of a key missing from an existing bucket
\* returns empty bytes and no error.
C21_MissingBucketFails ==
    [][\A k \in Keys :
          /\ (ReadStep(k) /\ ~rdb.b.exists) => rret'[2] = "bucketnotfound"
          /\ (DBGetBytes(k) /\ rdb.b.exists /\ rdb.b.kv[k] = None)
                => rret' = <<"dbgetbytes", "nil", "#">>]_vars

\* ------------------------------------------------- SegDB and ConvertDB
\* a database file without buckets
EmptySeg ==
    [b \in SegBuckets |-> [exists |-> FALSE, kv |-> [k \in SegKeys |-> None], seq |-> 0]]

\* no database
NoDB == [kind |-> "none", segs |-> <<>>]

\* MultiDB.Get with Options.InitialBuckets: the buckets are created when the
\* file is opened
OpenSegment(ib) == [b \in SegBuckets |-> [EmptySeg[b] EXCEPT !.exists = b \in ib]]

\* Open (one file) and NewSegDB (NumSegments files, each opened with opts)
NewDBer(kind, ib) ==
    [kind |-> kind,
     segs |-> [i \in 1..(IF kind = "db" THEN 1 ELSE NumSegments) |-> OpenSegment(ib)]]

\* SegDB.SegmentFn: a hash of the key
SegmentFn(k) == IF k = "ka" THEN 4 ELSE 7

\* SegDB.db, as an index into dbs (the only file, for a DB)
SegIndex(d, k) == (SegmentFn(k) % Len(d.segs)) + 1

\* genh.MarshalMsgpack, the marshaler NewSegDB sets
MarshalMsgpack(x) == <<"mp", x>>

\* a PutAny that marshals byte slices too
SegPutAnyMarshalsAll(d, v) ==
    IF d.kind = "seg" THEN MarshalMsgpack(v[2]) ELSE Marshal(v[2])

\* DB.PutAny with the database's marshaler: a []byte is stored as it is
SegPutAny(d, v) ==
    IF v[1] # "any" THEN v
    ELSE IF d.kind = "seg" THEN MarshalMsgpack(v[2]) ELSE Marshal(v[2])

\* DB.PutBytes on one file: the bucket is created when missing
FilePut(s, b, k, w) == [s EXCEPT ![b] = [@ EXCEPT !.exists = TRUE, !.kv[k] = w]]

\* DBer.Put
SegPutOp(d, b, k, v) ==
    [d EXCEPT !.segs[SegIndex(d, k)] = FilePut(@, b, k, SegPutAny(d, v))]

\* the bytes the database holds under (b, k): s.db(key), then the bucket
SegStored(d, b, k) ==
    LET bk == d.segs[SegIndex(d, k)][b] IN
    IF bk.exists THEN bk.kv[k] ELSE None

\* DBer.CurrentIndex: the sequence of the bucket in dbs[0]
SegCurrentIndex(d, b) == IF d.segs[1][b].exists THEN d.segs[1][b].seq ELSE 0

\* DBer.SetNextIndex: on dbs[0], creating the bucket there
SegSetNextIndexOp(d, b, n) ==
    [d EXCEPT !.segs[1][b] = [@ EXCEPT !.exists = TRUE, !.seq = n]]

\* DBer.Buckets: the buckets of every file, sorted
BucketsOf(d) ==
    SelectSeq(SegBucketSeq, LAMBDA b : \E i \in 1..Len(d.segs) : d.segs[i][b].exists)

\* SegDB.ForEachBytes stops at the first file whose DB.ForEachBytes fails:
\* Tx.ForEachBytes returns ErrBucketNotFound when the file has no such bucket
FirstMissing(d, b) ==
    IF \A i \in 1..Len(d.segs) : d.segs[i][b].exists THEN Len(d.segs) + 1
    ELSE CHOOSE i \in 1..Len(d.segs) :
            /\ ~d.segs[i][b].exists
            /\ \A j \in 1..(i - 1) : d.segs[j][b].exists

\* the files ForEachBytes hands to fn, for a fn that never fails
FilesVisited(d, b) ==
    {i \in 1..Len(d.segs) : i < FirstMissing(d, b) /\ d.segs[i][b].exists}

\* DBer.ForEachBytes with a fn that never fails: the error returned
ForEachErr(d, b) ==
    IF FirstMissing(d, b) <= Len(d.segs) THEN "bucketnotfound" ELSE "nil"

\* how often ForEachBytes calls fn with key k
FnCalls(d, b, k) == Cardinality({i \in FilesVisited(d, b) : d.segs[i][b].kv[k] # None})


\* the ConvertFns: nil (the identity), one that drops key ka and one that
\* replaces the value of ka; <<value, keep>>
ConvertFn(f, b, k, v) ==
    CASE f = "drop" /\ k = "ka" -> <<v, FALSE>>
      [] f = "set" /\ k = "ka" -> <<NewVal, TRUE>>
      [] OTHER -> <<v, TRUE>>

\* the closure ConvertDB hands to src.ForEachBytes, run on the pairs of one
\* file: dst.Put(bkt, k, v) for every pair fn keeps
RECURSIVE CopyKeys(_, _, _, _, _)
CopyKeys(dst, s, b, f, ks) ==
    IF ks = {} THEN dst
    ELSE LET k == CHOOSE x \in ks : TRUE
             r == ConvertFn(f, b, k, s[b].kv[k])
         IN CopyKeys(IF s[b].kv[k] # None /\ r[2] THEN SegPutOp(dst, b, k, r[1]) ELSE dst,
                     s, b, f, ks \ {k})

\* src.ForEachBytes(bkt, closure): file after file, up to the first failure
RECURSIVE CopyFiles(_, _, _, _, _)
CopyFiles(dst, src, b, f, i) ==
    IF i > Len(src.segs) \/ i >= FirstMissing(src, b) THEN dst
    ELSE CopyFiles(CopyKeys(dst, src.segs[i], b, f, SegKeys), src, b, f, i + 1)

\* the loop of ConvertDB over the buckets bs: <<error, dst>>
RECURSIVE ConvertLoop(_, _, _, _)
ConvertLoop(dst, src, f, bs) ==
    IF bs = <<>> THEN <<"nil", dst>>
    ELSE LET b == Head(bs)
             d1 == SegSetNextIndexOp(dst, b, SegCurrentIndex(src, b))
             d2 == CopyFiles(d1, src, b, f, 1)
         IN IF ForEachErr(src, b) # "nil" THEN <<ForEachErr(src, b), d2>>
            ELSE ConvertLoop(d2, src, f, Tail(bs))

ConvertDB(dst, src, f) == ConvertLoop(dst, src, f, BucketsOf(src))

IsOpen(d) == sdb[d].kind # "none"

\* Open / NewSegDB
SegOpen(d, kind, ib) ==
    /\ ~IsOpen(d)
    /\ sdb' = [sdb EXCEPT ![d] = NewDBer(kind, ib)]
    /\ sret' = <<"open", "nil", kind>>
    /\ UNCHANGED <<seen, sops, nconv>>
    /\ UNCHANGED nonSegVars

\* DBer.Put
SegPut(d, b, k, v) ==
    /\ IsOpen(d) /\ sops < MaxSegOps
    /\ sdb' = [sdb EXCEPT ![d] = SegPutOp(@, b, k, v)]
    /\ sret' = <<"put", "nil", k>>
    /\ sops' = sops + 1
    /\ UNCHANGED <<seen, nconv>>
    /\ UNCHANGED nonSegVars

\* DBer.Delete: Tx.Delete on the key's file
SegDelete(d, b, k) ==
    /\ IsOpen(d) /\ sops < MaxSegOps
    /\ LET i == SegIndex(sdb[d], k) IN
       IF sdb[d].segs[i][b].exists
       THEN /\ sdb' = [sdb EXCEPT ![d].segs[i][b].kv[k] = None]
            /\ sret' = <<"delete", "nil", k>>
       ELSE /\ sret' = <<"delete", "bucketnotfound", k>>
            /\ UNCHANGED sdb
    /\ sops' = sops + 1
    /\ UNCHANGED <<seen, nconv>>
    /\ UNCHANGED nonSegVars

\* DBer.SetNextIndex
SegSetNextIndex(d, b, n) ==
    /\ IsOpen(d) /\ sops < MaxSegOps
    /\ sdb' = [sdb EXCEPT ![d] = SegSetNextIndexOp(@, b, n)]
    /\ sret' = <<"setseq", "nil", b>>
    /\ sops' = sops + 1
    /\ UNCHANGED <<seen, nconv>>
    /\ UNCHANGED nonSegVars

\* DBer.NextIndex: on dbs[0]
SegNextIndex(d, b) ==
    /\ IsOpen(d) /\ sops < MaxSegOps
    /\ sdb' = [sdb EXCEPT ![d] =
                 SegSetNextIndexOp(@, b, NextSequence(sdb[d].segs[1][b].seq))]
    /\ sret' = <<"seq", "nil", b>>
    /\ sops' = sops + 1
    /\ UNCHANGED <<seen, nconv>>
    /\ UNCHANGED nonSegVars

\* DBer.ForEachBytes with a fn that counts its calls and never fails
SegForEachBytes(d, b) ==
    /\ IsOpen(d)
    /\ seen' = [k \in SegKeys |-> FnCalls(sdb[d], b, k)]
    /\ sret' = <<"foreach", ForEachErr(sdb[d], b), b>>
    /\ UNCHANGED <<sdb, sops, nconv>>
    /\ UNCHANGED nonSegVars

\* ConvertDB(dst, src, fn)
Convert(dst, src, f) ==
    /\ IsOpen(dst) /\ IsOpen(src) /\ dst # src
    /\ nconv < MaxConverts
    /\ sdb' = [sdb EXCEPT ![dst] = ConvertDB(sdb[dst], sdb[src], f)[2]]
    /\ sret' = <<"convert", ConvertDB(sdb[dst], sdb[src], f)[1], f>>
    /\ nconv' = nconv + 1
    /\ UNCHANGED <<seen, sops>>
    /\ UNCHANGED nonSegVars

SegNext ==
    \/ \E d \in SegNames, kind \in SegKinds, ib \in InitialBuckets : SegOpen(d, kind, ib)
    \/ \E d \in SegNames, b \in SegBuckets, k \in SegKeys, v \in SegVals : SegPut(d, b, k, v)
    \/ \E d \in SegNames, b \in SegBuckets, k \in SegKeys : SegDelete(d, b, k)
    \/ \E d \in SegNames, b \in SegBuckets, n \in SegSeqs : SegSetNextIndex(d, b, n)
    \/ \E d \in SegNames, b \in SegBuckets : SegNextIndex(d, b)
    \/ \E d \in SegNames, b \in SegBuckets : SegForEachBytes(d, b)
    \/ \E dst \in SegNames, src \in SegNames, f \in ConvertFns : Convert(dst, src, f)

SegSpec == InitNoAuth /\ [][SegNext]_vars

\* the bucket holds the key in some file of the database
HoldsPair(d, b, k) == \E i \in 1..Len(d.segs) : d.segs[i][b].exists /\ d.segs[i][b].kv[k] # None

\* C22: for a bucket that exists in some file of the database,
\* ForEachBytes(bucket, fn) with a fn that never fails returns nil and has
\* called fn exactly once for every pair stored in the bucket in any file,
\* however the keys are spread over the files.
C22_ForEachVisitsAll ==
    [][\A d \in SegNames, b \in SegBuckets :
          (SegForEachBytes(d, b) /\ b \in {BucketsOf(sdb[d])[i] : i \in 1..Len(BucketsOf(sdb[d]))})
              => /\ sret' = <<"foreach", "nil", b>>
                 /\ \A k \in SegKeys :
                       seen'[k] = IF HoldsPair(sdb[d], b, k) THEN 1 ELSE 0]_vars

\* C23: when ConvertDB(dst, src, fn) returns nil, then for every bucket of
\* src and every pair in it: dst holds fn's value under the key when fn
\* keeps the pair, dst holds under the key what it held before when fn drops
\* it, and CurrentIndex of the bucket in dst is what it is in src.
C23_ConvertCopies ==
    [][\A dst \in SegNames, src \in SegNames, f \in ConvertFns :
          (Convert(dst, src, f) /\ sret'[2] = "nil") =>
              \A i \in 1..Len(BucketsOf(sdb[src])) :
                  LET b == BucketsOf(sdb[src])[i] IN
                  /\ SegCurrentIndex(sdb'[dst], b) = SegCurrentIndex(sdb[src], b)
                  /\ \A k \in SegKeys :
                        LET v == SegStored(sdb[src], b, k)
                            r == ConvertFn(f, b, k, v)
                        IN v # None =>
                              SegStored(sdb'[dst], b, k) =
                                  IF r[2] THEN r[1] ELSE SegStored(sdb[dst], b, k)]_vars

\* ConvertDB from a DB into a SegDB returned nil with a fn that replaces the
\* value of ka: the SegDB holds the new value under ka and the copied
\* sequence number
C23_Witness ==
    /\ sret = <<"convert", "nil", "set">>
    /\ sdb["A"].kind = "db" /\ sdb["B"].kind = "seg"
    /\ SegStored(sdb["A"], "b1", "ka") = Marshal("a")
    /\ SegStored(sdb["B"], "b1", "ka") = NewVal
    /\ SegCurrentIndex(sdb["A"], "b1") = 2
    /\ SegCurrentIndex(sdb["B"], "b1") = 2

\* what a database holds, as its callers see it: the bytes under every
\* key and the sequence number of every bucket
ContentsOf(d) ==
    [b \in SegBuckets |->
        [kv |-> [k \in SegKeys |-> SegStored(d, b, k)], seq |-> SegCurrentIndex(d, b)]]

\* C24: for every database A, and B and C newly created as a DB or a SegDB,
\* ConvertDB(B, A, nil) followed by ConvertDB(C, B, nil) leaves C with the
\* contents and sequence numbers that ConvertDB(C, A, nil) leaves it with.
C24_ConvertComposes ==
    \A a \in SegNames, kb \in SegKinds, kc \in SegKinds :
        IsOpen(a) =>
            LET B0 == NewDBer(kb, {})
                C0 == NewDBer(kc, {})
                B1 == ConvertDB(B0, sdb[a], "id")[2]
            IN ContentsOf(ConvertDB(C0, B1, "id")[2]) =
                   ContentsOf(ConvertDB(C0, sdb[a], "id")[2])

\* ------------------------------------------------------------ the journal
\* NewJournal: no file name, no file, no encoder
NewJournal == [fn |-> 0, f |-> "nil", enc |-> "nil"]

\* Journal.writer at time now: <<error, journal>>.  how is what the file
\* system does when the file of a new period is opened: "ok", "nofile"
\* (OpenFile fails) or "noseek" (Seek fails on the opened file).  An encoder
\* is made only when both succeed; the old one then writes to a closed file.
JournalWriter(j, now, how) ==
    IF j.fn = now THEN <<"nil", j>>
    ELSE LET old == IF j.enc = "nil" THEN "nil" ELSE "stale" IN
         CASE how = "ok" -> <<"nil", [fn |-> now, f |-> "open", enc |-> "cur"]>>
           [] how = "nofile" -> <<"err", [fn |-> now, f |-> "nil", enc |-> old]>>
           [] OTHER -> <<"err", [fn |-> now, f |-> "open", enc |-> old]>>

\* Journal.Write: <<"nil" | "err" | "panic", journal>>.  j.enc.Encode on a
\* nil encoder is a nil dereference; on the encoder of a closed file it is
\* an error.
JournalWrite(j, now, how, encOk) ==
    LET w == JournalWriter(j, now, how) IN
    IF w[1] # "nil" THEN w
    ELSE IF w[2].enc = "nil" THEN <<"panic", w[2]>>
    ELSE IF w[2].enc = "stale" \/ w[2].f # "open" \/ ~encOk THEN <<"err", w[2]>>
    ELSE w

\* Server.txBegin after db.Begin(true) succeeded, given what the journal
\* write did: <<response, the lock map has the entry, the writer is held>>.
\* The entry is stored after the journal write; a panic is caught by the
\* HTTP server and answered with an error.
BeginOutcome(jr) ==
    IF jr = "panic" THEN <<"panic", FALSE, TRUE>> ELSE <<"OK", TRUE, TRUE>>

\* Server.unlock: withTx removes the entry and ends the transaction, then
\* the journal is written, then the response is made
UnlockOutcome(had, writer, jr) ==
    <<IF jr = "panic" THEN "panic" ELSE IF had THEN "OK" ELSE "notfound",
      FALSE, IF had THEN FALSE ELSE writer>>

\* time.Now().Format(j.fileFmt) changes
JournalTick ==
    /\ jnow < MaxPeriods
    /\ jnow' = jnow + 1
    /\ UNCHANGED <<jrn, jret, jlock, jwriter, jresp, jcalls>>
    /\ UNCHANGED nonJrnVars

\* Journal.Close
JournalClose ==
    /\ jrn.f # "nil"
    /\ jrn' = [jrn EXCEPT !.f = "nil", !.enc = "nil"]
    /\ jret' = "closed"
    /\ UNCHANGED <<jnow, jlock, jwriter, jresp, jcalls>>
    /\ UNCHANGED nonJrnVars

\* a begin request, handled by Server.txBegin
JournalBegin(how, encOk) ==
    /\ ~jwriter /\ jcalls < MaxJournalCalls
    /\ LET w == JournalWrite(jrn, jnow, how, encOk) IN
       /\ jrn' = w[2]
       /\ jret' = w[1]
       /\ jresp' = BeginOutcome(w[1])[1]
       /\ jlock' = BeginOutcome(w[1])[2]
       /\ jwriter' = BeginOutcome(w[1])[3]
    /\ jcalls' = jcalls + 1
    /\ UNCHANGED jnow
    /\ UNCHANGED nonJrnVars

\* a commit or rollback request, handled by Server.unlock
JournalUnlock(how, encOk) ==
    /\ jcalls < MaxJournalCalls
    /\ LET w == JournalWrite(jrn, jnow, how, encOk) IN
       /\ jrn' = w[2]
       /\ jret' = w[1]
       /\ jresp' = UnlockOutcome(jlock, jwriter, w[1])[1]
       /\ jlock' = UnlockOutcome(jlock, jwriter, w[1])[2]
       /\ jwriter' = UnlockOutcome(jlock, jwriter, w[1])[3]
    /\ jcalls' = jcalls + 1
    /\ UNCHANGED jnow
    /\ UNCHANGED nonJrnVars

JournalNext ==
    \/ JournalTick
    \/ JournalClose
    \/ \E how \in OpenResults, encOk \in BOOLEAN : JournalBegin(how, encOk)
    \/ \E how \in OpenResults, encOk \in BOOLEAN : JournalUnlock(how, encOk)

JournalSpec == InitNoAuth /\ [][JournalNext]_vars

\* C25: Journal.Write never panics, whatever the file system does and
\* whether or not the journal was closed, and the response of the handler
\* that called it, the lock map and the engine's writer are what they are
\* when the journal write succeeds.
C25_JournalNeverChangesOutcome ==
    [][/\ (\E how \in OpenResults, encOk \in BOOLEAN : JournalBegin(how, encOk))
            => /\ jret' # "panic"
               /\ <<jresp', jlock', jwriter'>> = BeginOutcome("nil")
       /\ (\E how \in OpenResults, encOk \in BOOLEAN : JournalUnlock(how, encOk))
            => /\ jret' # "panic"
               /\ <<jresp', jlock', jwriter'>> = UnlockOutcome(jlock, jwriter, "nil")]_vars

\* watchers between their tx.Rollback() and their Timeouts.Add(1)
Reaping == {w \in TxIds : wpc[w] = "delete"}

\* C26: Timeouts is the number of transactions that a watcher rolled back:
\* it never exceeds that number, and it is short of it only by watchers that
\* have called tx.Rollback() and not yet Timeouts.Add(1).
C26_TimeoutsCountsReaped ==
    /\ stats.Timeouts <= reaped
    /\ reaped <= stats.Timeouts + Cardinality(Reaping)

\* the engine's Commit or Rollback is invoked on transaction t: by the
\* callback unlock passes to withTx, or by a watcher
EndsTx(t) ==
    \/ \E c \in Clients :
          WithTxFn(c) /\ htx[c] = t /\ req[c].kind \in {"commit", "rollback"}
    \/ \E w \in TxIds : CheckLockRollback(w) /\ wtx[w] = t

\* C27: the engine's commit or rollback is invoked on a server transaction
\* once only: whoever invokes one, in the commit handler, the rollback
\* handler or a watcher, finds the transaction neither committed nor rolled
\* back.
C27_EndedOnce ==
    [][\A t \in TxIds : EndsTx(t) => txState[t] = "live"]_vars

\* C28: when MultiDB.Get returns to a caller whose bbolt.Open succeeded,
\* the handle it opened is registered in the map or closed; a caller whose
\* re-check under the write lock finds a registered handle returns that one.
C28_OpenedIsInstalledOrClosed ==
    [][\A g \in Callers, initOk \in BOOLEAN :
          GetInsert(g, initOk) =>
              /\ mdbM'  = gbdb[g] \/ dbState'[gbdb[g]] = "closed"
              /\ mdbM # Nil => gdb'[g] = mdbM]_vars

\* C29: no caller holds the registry's write lock while it runs an engine
\* operation: bbolt.Open in Get, the InitDB callback and the InitialBuckets
\* update of a Get that registers its handle, the engine's Close in
\* MultiDB.Close.
C29_NoEngineOpUnderLock ==
    [][/\ \A g \in Callers : GetOpen(g) => mdbMux # g
       /\ \A g \in Callers, initOk \in BOOLEAN :
             (GetInsert(g, initOk) /\ mdbM = Nil) => mdbMux # g
       /\ MdbCloseDB => mdbMux # Closer]_vars

\* goroutine g is inside the fn of Cache.Get's MustGet for key k
Filling(g, k) == kop[g] = "get" /\ kkey[g] = k /\ kpc[g] \in {"load", "set", "store"}

\* C30: Cache.Get is an atomic get-or-fill: of the concurrent Get calls
\* that miss a key, one at a time is reading the engine and filling the
\* map, and no caller is stuck in its fill waiting for the map's lock that
\* its own MustGet holds.
C30_AtomicGetOrFill ==
    /\ \A g \in CacheCallers, h \in CacheCallers, k \in Keys :
          (Filling(g, k) /\ Filling(h, k)) => g = h
    /\ \A g \in CacheCallers : ~(kpc[g] = "set" /\ cacheMux = g)

\* ----------------------------- the rbolt client's cache and the caller's v
\* One client, one database, one bucket, values of a reference type (a
\* pointer, slice or map).  The caller's objects live in aheap; the bytes of
\* a request are the object's content when the request is made.

\* LMultiMap.Set(bucket, key, v): the any handed in is what the map holds
CacheSet(h, r) == <<"ref", r>>

\* the content of a cached any: the caller's object as it is now, or the
\* object that only the cache holds
Cached(h, e) == IF e[1] = "ref" THEN h[e[2]] ELSE e[2]

\* the caller makes a value
AliasNew(r, x) ==
    /\ aheap[r] = "free"
    /\ aheap' = [aheap EXCEPT ![r] = x]
    /\ UNCHANGED <<acache, asrv, atx, alast, aret, aops>>
    /\ UNCHANGED nonAliVars

\* the caller changes a value it made
AliasMutate(r, x) ==
    /\ aheap[r] \notin {"free", x}
    /\ aheap' = [aheap EXCEPT ![r] = x]
    /\ UNCHANGED <<acache, asrv, atx, alast, aret, aops>>
    /\ UNCHANGED nonAliVars

\* Client.Put: a noTx PUT (it waits for the database's writer), then Set
AliasPut(k, r) ==
    /\ aops < MaxAliasOps
    /\ aheap[r] # "free"
    /\ ~atx.live
    /\ asrv' = [asrv EXCEPT ![k] = MarshalMsgpack(aheap[r])]
    /\ acache' = [acache EXCEPT ![k] = CacheSet(aheap, r)]
    /\ alast' = [alast EXCEPT ![k] = aheap[r]]
    /\ aops' = aops + 1
    /\ UNCHANGED <<aheap, atx, aret>>
    /\ UNCHANGED nonAliVars

\* Client.Get: MustGet's hit, or its fill by a noTx GET; the result is
\* ReflectClone'd into the caller's v
AliasGet(k) ==
    /\ IF acache[k] # <<"none">>
       THEN /\ aret' = <<"nil", k, Cached(aheap, acache[k])>>
            /\ UNCHANGED acache
       ELSE IF asrv[k] # None
            THEN /\ acache' = [acache EXCEPT ![k] = <<"own", DecodeMsgpack(asrv[k])>>]
                 /\ aret' = <<"nil", k, DecodeMsgpack(asrv[k])>>
            ELSE /\ aret' = <<"err", k, Absent>>
                 /\ UNCHANGED acache
    /\ UNCHANGED <<aheap, asrv, atx, alast, aops>>
    /\ UNCHANGED nonAliVars

\* Client.Begin
AliasBegin ==
    /\ aops < MaxAliasOps
    /\ ~atx.live
    /\ atx' = [live |-> TRUE, view |-> asrv, updates |-> <<>>,
               put |-> [k \in Keys |-> Absent]]
    /\ aops' = aops + 1
    /\ UNCHANGED <<aheap, acache, asrv, alast, aret>>
    /\ UNCHANGED nonAliVars

\* Tx.Put: the PUT on the transaction, then the thunk that captures v
AliasTxPut(k, r) ==
    /\ aops < MaxAliasOps
    /\ atx.live
    /\ aheap[r] # "free"
    /\ Len(atx.updates) < MaxUpdates
    /\ atx' = [atx EXCEPT !.view[k] = MarshalMsgpack(aheap[r]),
                          !.updates = Append(@, <<k, CacheSet(aheap, r)>>),
                          !.put[k] = aheap[r]]
    /\ aops' = aops + 1
    /\ UNCHANGED <<aheap, acache, asrv, alast, aret>>
    /\ UNCHANGED nonAliVars

\* Tx.Commit (the thunks run) and Tx.Rollback
AliasTxEnd(commit) ==
    /\ aops < MaxAliasOps
    /\ atx.live
    /\ asrv' = IF commit THEN atx.view ELSE asrv
    /\ acache' = RunUpdates(commit, atx.updates, acache)
    /\ alast' = IF commit
                THEN [k \in Keys |-> IF atx.put[k] # Absent THEN atx.put[k] ELSE alast[k]]
                ELSE alast
    /\ atx' = [atx EXCEPT !.live = FALSE]
    /\ aops' = aops + 1
    /\ UNCHANGED <<aheap, aret>>
    /\ UNCHANGED nonAliVars

AliasNext ==
    \/ \E r \in ARefs, x \in Contents : AliasNew(r, x)
    \/ \E r \in ARefs, x \in Contents : AliasMutate(r, x)
    \/ \E k \in Keys, r \in ARefs : AliasPut(k, r)
    \/ \E k \in Keys : AliasGet(k)
    \/ AliasBegin
    \/ \E k \in Keys, r \in ARefs : AliasTxPut(k, r)
    \/ \E commit \in BOOLEAN : AliasTxEnd(commit)

AliasSpec == InitNoAuth /\ [][AliasNext]_vars

\* C31: a Client.Get that follows a Client.Put, or a committed Tx.Put, of
\* key k yields the content v had when it was put, whatever the caller did
\* to v since.
C31_PutInstallsClone ==
    [][\A k \in Keys :
          (AliasGet(k) /\ alast[k] # Absent) => aret' = <<"nil", k, alast[k]>>]_vars

\* ------------------------------------------------------------ Client.doReq
\* One call at a time.  c.c.Do either fails (a transport error) or yields a
\* response with a status; the body of a response may fail to decode.

\* a test that allows one attempt more
RetryExhaustedLate(retry) == retry < 0

\* retry < 1
RetryExhausted(retry) == retry < 1

\* what doReq returns for a response
OnResponse(status, decOk) ==
    CASE status = "401" -> <<"unauthorized", 0>>
      [] status = "200" /\ decOk -> <<"nil", 0>>
      [] status = "500" /\ decOk -> <<"status", 0>>
      [] OTHER -> <<"decode", 0>>

\* doReq up to the loop: the body is marshalled, retry := c.RetryCount
DoReqCall(n, marshalOk) ==
    /\ dpc = "idle"
    /\ dcalls < MaxDoCalls
    /\ dcalls' = dcalls + 1
    /\ dcount' = n
    /\ dtries' = 0
    /\ dsleeps' = 0
    /\ IF marshalOk
       THEN /\ dpc' = "do"
            /\ dretry' = n
            /\ dret' = <<"none", 0>>
       ELSE /\ dret' = <<"marshal", 0>>
            /\ UNCHANGED <<dpc, dretry>>
    /\ UNCHANGED nonDoVars

\* c.c.Do fails: retry--, and either the error or the wait
DoReqFail ==
    /\ dpc = "do"
    /\ dtries' = dtries + 1
    /\ dretry' = dretry - 1
    /\ IF RetryExhausted(dretry')
       THEN /\ dpc' = "idle"
            /\ dret' = <<"failed", dcount>>
       ELSE /\ dpc' = "sleep"
            /\ UNCHANGED dret
    /\ UNCHANGED <<dcount, dsleeps, dcalls>>
    /\ UNCHANGED nonDoVars

\* c.c.Do yields a response: the loop is left and the response handled
DoReqResponse(status, decOk) ==
    /\ dpc = "do"
    /\ dtries' = dtries + 1
    /\ dpc' = "idle"
    /\ dret' = OnResponse(status, decOk)
    /\ UNCHANGED <<dretry, dcount, dsleeps, dcalls>>
    /\ UNCHANGED nonDoVars

\* time.Sleep(c.RetrySleep), then the next attempt
DoReqSleep ==
    /\ dpc = "sleep"
    /\ dsleeps' = dsleeps + 1
    /\ dpc' = "do"
    /\ UNCHANGED <<dretry, dcount, dtries, dret, dcalls>>
    /\ UNCHANGED nonDoVars

DoReqNext ==
    \/ \E n \in RetryCounts, marshalOk \in BOOLEAN : DoReqCall(n, marshalOk)
    \/ DoReqFail
    \/ \E status \in Statuses, decOk \in BOOLEAN : DoReqResponse(status, decOk)
    \/ DoReqSleep

\* the calling goroutine keeps running, and c.c.Do and time.Sleep return
DoReqSpec ==
    /\ InitNoAuth
    /\ [][DoReqNext]_vars
    /\ WF_vars(DoReqFail \/ \E status \in Statuses, decOk \in BOOLEAN :
                                DoReqResponse(status, decOk))
    /\ WF_vars(DoReqSleep)

\* the attempts a call may make: c.RetryCount, and one when that is below 1
MaxAttempts(n) == IF n < 1 THEN 1 ELSE n

\* C32: a doReq call returns; while it runs it has made at most RetryCount
\* attempts and has slept once after each failed attempt but the one that
\* ends the call; when every attempt failed it has made exactly
\* max(1, RetryCount) of them and returns 'failed after RetryCount retries';
\* an attempt that yields a response ends the call at once, with an error
\* when the status is not 200.
C32_SendTerminates ==
    /\ [](/\ dtries <= MaxAttempts(dcount)
          /\ dpc = "do" => dsleeps = dtries /\ dtries < MaxAttempts(dcount)
          /\ dpc = "sleep" => dsleeps = dtries - 1
          /\ dret[1] = "failed" =>
                /\ dret[2] = dcount
                /\ dtries = MaxAttempts(dcount)
                /\ dsleeps = dtries - 1)
    /\ [][\A status \in Statuses, decOk \in BOOLEAN :
             DoReqResponse(status, decOk) =>
                 /\ dpc' = "idle"
                 /\ status # "200" => dret'[1] \in {"unauthorized", "status", "decode"}]_vars
    /\ (dpc # "idle" ~> dpc = "idle")

\* three transport errors with RetryCount = 3: two sleeps, then the error
C32_Witness ==
    dpc = "idle" /\ dret = <<"failed", 3>> /\ dtries = 3 /\ dsleeps = 2

\* ------------------------------------------------- ForEach / ForEachTx
\* The response body is a sequence of msgpack frames [2][]byte; forEach
\* reads it frame by frame.

\* genh.UnmarshalMsgpack(kv[1], &v): <<error, v>>
UnmarshalMsgpack(b) == IF b[1] = "mp" THEN <<"nil", b[2]>> ELSE <<"err", "">>

\* ForEach / ForEachTx: the request succeeded and forEach starts on the body
ForEachCall(s) ==
    /\ fpc = "idle"
    /\ fruns < MaxForEach
    /\ fruns' = fruns + 1
    /\ fpc' = "loop"
    /\ fstream' = s
    /\ fpos' = 1
    /\ fcalls' = <<>>
    /\ finst' = <<>>
    /\ fret' = "none"
    /\ UNCHANGED fcache
    /\ UNCHANGED nonFeVars

\* one iteration of forEach's loop; fnOk: fn returns nil
ForEachStep(fnOk) ==
    /\ fpc = "loop"
    /\ IF fpos > Len(fstream)
       THEN \* io.EOF
            /\ fpc' = "idle"
            /\ fret' = "nil"
            /\ UNCHANGED <<fpos, fcalls, finst, fcache>>
       ELSE LET key == fstream[fpos][1]
                u == UnmarshalMsgpack(fstream[fpos][2])
            IN IF key = ""
               THEN \* continue
                    /\ fpos' = fpos + 1
                    /\ UNCHANGED <<fpc, fret, fcalls, finst, fcache>>
               ELSE IF u[1] # "nil"
               THEN /\ fpc' = "idle"
                    /\ fret' = "err"
                    /\ UNCHANGED <<fpos, fcalls, finst, fcache>>
               ELSE /\ fcache' = [fcache EXCEPT ![key] = u[2]]
                    /\ finst' = Append(finst, <<key, u[2]>>)
                    /\ fcalls' = Append(fcalls, <<key, u[2]>>)
                    /\ IF fnOk
                       THEN /\ fpos' = fpos + 1
                            /\ UNCHANGED <<fpc, fret>>
                       ELSE /\ fpc' = "idle"
                            /\ fret' = "fnerr"
                            /\ UNCHANGED fpos
    /\ UNCHANGED <<fstream, fruns>>
    /\ UNCHANGED nonFeVars

ForEachNext ==
    \/ \E s \in Streams : ForEachCall(s)
    \/ \E fnOk \in BOOLEAN : ForEachStep(fnOk)

ForEachSpec == InitNoAuth /\ [][ForEachNext]_vars

RECURSIVE PairsBeforeEnd(_)
\* the pairs of a stream up to its first frame with an empty key
PairsBeforeEnd(s) ==
    IF s = <<>> \/ Head(s)[1] = "" THEN <<>>
    ELSE <<<<Head(s)[1], UnmarshalMsgpack(Head(s)[2])[2]>>>> \o PairsBeforeEnd(Tail(s))

\* p is a prefix of q
IsPrefix(p, q) == Len(p) <= Len(q) /\ SubSeq(q, 1, Len(p)) = p

Handled(c) == hpc[c] \notin {"idle", "mw"} /\ hpc'[c] = "idle"

\* C34: a step in which a handler returns appends one journal entry, and no
\* other step (the middleware's 401, a watcher's rollback, a client's own
\* step) appends any.
C34_OneEntryPerHandledRequest ==
    [][IF \E c \in Clients : Handled(c)
       THEN journal' = journal + 1
       ELSE journal' = journal]_vars

\* the serverTx whose entry the step of a handler or watcher works on
Removes(t) ==
    \/ \E c \in Clients : WithTxLock(c) /\ htx[c] = t
    \/ \E w \in TxIds : CheckLockDelete(w) /\ wtx[w] = t

\* transaction t is in the hands of a handler that is registering or ending it
InHand(t) == \E c \in Clients : htx[c] = t /\ hpc[c] \in {"b_set", "wt_fn"}

\* C35: a step that removes an entry from the lock map is a step of the
\* commit handler, the rollback handler or the watcher working on the very
\* transaction of that entry; and every live transaction is the lock map's
\* entry for its database, or in the hands of the handler that registers,
\* commits or rolls it back.
C35_RemovesOwnEntry ==
    /\ [][\A d \in DBs :
             (lock[d] # Nil /\ lock'[d] = Nil) => Removes(lock[d])]_vars
    /\ [](\A t \in TxIds :
             txState[t] = "live" => lock[txDb[t]] = t \/ InHand(t))

\* C36: the callback of withTx (a tx operation, Commit or Rollback) runs
\* only on a live engine transaction; a handler whose serverTx was
\* terminated after the look-up answers not-found.
C36_RunsOnLiveTxOnly ==
    [][\A c \in Clients :
          /\ WithTxFn(c) => txState[htx[c]] = "live"
          /\ (hpc[c] = "wt_fn" /\ hpc'[c] = "idle" /\ txState[htx[c]] # "live")
                => resp'[c].code = WithTxAbsent]_vars

\* C37: when the watcher's tx.Rollback() rolls a transaction back, the
\* transaction's last activity is older than MaxUnusedLock at that moment.
C37_RollsBackStaleOnly ==
    [][\A w \in TxIds :
          (CheckLockRollback(w) /\ txState[wtx[w]] = "live") => IsStale(wtx[w])]_vars

\* C38: the callback of withTx for a request of client c (a tx operation,
\* Commit or Rollback) runs on a live transaction only if c's own begin
\* opened that transaction.
C38_OwnTxOnly ==
    [][\A c \in Clients :
          (WithTxFn(c) /\ txState[htx[c]] = "live") => began[htx[c]] = c]_vars

\* ------------------------------------- the client cache and ForEachTx
\* The client of ClientSpec with ForEachTx, and with a record of what has
\* been committed.

\* what Client.Put and Tx.Commit leave alone, but for the history
nonRemHist == <<rboltVars, mdbVars, cacheVars, segVars, jrnVars, reaped, began,
                kold, aliVars, doVars, feVars>>

\* the pairs a Commit publishes: those of the transaction's view, as the
\* client put them (CliVals are the values the client puts)
Published(view) ==
    {<<k, v>> \in Keys \X CliVals : view.b.exists /\ view.b.kv[k] = ServerOut(v)}

\* ForEachTx: POST tx/<db> with FOR_EACH; the server streams the pairs of the
\* transaction registered for the db, and forEach installs each pair in the
\* cache before it hands it to fn; a value that does not decode ends the loop
TxForEach(t) ==
    /\ Returned(t)
    /\ IF rlive /\ rview.b.exists
       THEN /\ ccache' = [k \in Keys |->
                            IF LenZero(rview.b.kv[k]) THEN ccache[k]
                            ELSE DecodeMsgpack(rview.b.kv[k])]
            /\ rret' = <<"foreach",
                         IF \E k \in Keys : rview.b.kv[k] = ServerOut("#")
                         THEN "err" ELSE "nil", Absent>>
       ELSE /\ rret' = <<"foreach", "err", Absent>>
            /\ UNCHANGED ccache
    /\ UNCHANGED <<rdb, rlive, rview, clk, nTxObj, updates, rpc, rtx, rkind,
                   sent, called, lastNoTx, lastIdx>>
    /\ UNCHANGED nonRemVars

\* Client.Put, as ClientPut, with the record
UncPut(k, v) ==
    /\ ~rlive
    /\ rdb' = SrvOp("PUT", k, v, rdb)[3]
    /\ ccache' = [ccache EXCEPT ![k] = v]
    /\ rret' = <<"put", "nil", Absent>>
    /\ lastNoTx' = [lastNoTx EXCEPT ![k] = <<"put", v, FALSE>>]
    /\ everc' = everc \cup {<<k, v>>}
    /\ UNCHANGED <<rlive, rview, clk, nTxObj, updates, rpc, rtx, rkind, sent,
                   called, lastIdx>>
    /\ UNCHANGED nonRemHist

\* Tx.Commit / Tx.Rollback from the request on, as TxEndReq, with the record
UncTxEnd(g) ==
    /\ rpc[g] = "sent"
    /\ LET commit == rkind[g] = "commit" IN
       /\ rdb' = IF rlive /\ commit THEN rview ELSE rdb
       /\ ccache' = RunUpdates(rlive /\ commit, updates[rtx[g]], ccache)
       /\ lastNoTx' = IF rlive /\ commit
                      THEN [k \in Keys |-> <<"none", Absent, FALSE>>] ELSE lastNoTx
       /\ rret' = <<rkind[g], IF rlive THEN "nil" ELSE "err", Absent>>
       /\ everc' = IF rlive /\ commit
                   THEN everc \cup Published(rview) ELSE everc
    /\ rlive' = FALSE
    /\ rview' = NoView
    /\ rpc' = [rpc EXCEPT ![g] = "idle"]
    /\ rtx' = [rtx EXCEPT ![g] = Nil]
    /\ updates' = Pending(updates, clk, rpc', rtx')
    /\ UNCHANGED <<clk, nTxObj, rkind, sent, called, lastIdx>>
    /\ UNCHANGED nonRemHist

UncNext ==
    \/ \E k \in Keys : ClientGet(k)
    \/ \E k \in Keys, v \in CliVals : UncPut(k, v)
    \/ \E g \in Goroutines : ClientBegin(g)
    \/ \E g \in Goroutines : ClientBeginSet(g)
    \/ \E t \in 1..MaxBegin, k \in Keys, v \in CliVals \cup {Absent} : TxWrite(t, k, v)
    \/ \E t \in 1..MaxBegin : TxForEach(t)
    \/ \E g \in Goroutines, t \in 1..MaxBegin, kind \in {"commit", "rollback"} :
          TxEndCheck(g, t, kind)
    \/ \E g \in Goroutines : UncTxEnd(g)
    \/ Reap

UncSpec == InitNoAuth /\ [][UncNext]_vars

\* C39: when the database has no open transaction (the last one was
\* committed, rolled back or reaped), every value in the client cache is a
\* value that a Client.Put or a committed transaction stored for its key.
C39_NoUncommittedInCache ==
    ~rlive => \A k \in Keys : ccache[k] # Absent => <<k, ccache[k]>> \in everc

\* C40: when the write transaction of a Cache.Put or Cache.Delete fails to
\* commit (the call returns the error), the cache map holds for the key
\* what it held before the call touched it.
C40_FailedWriteLeavesMap ==
    [][\A g \in CacheCallers :
          CacheUpdateCommit(g, FALSE) => EntryOf(cacheM', heap', kkey[g]) = kold[g]]_vars

====
